---------------------------- MODULE Spec2Model ----------------------------
(***************************************************************************)
(* Text extraction of gofpdi: the PageRender operator interpreter          *)
(* (AddTextBlock), the run parser (ParseTextFields), the glyph width       *)
(* formula (CalculateGlyphWidth) and the row/column reconstruction         *)
(* (GetIndexedShowOps, InsertShowOpIntoRow), driven as                     *)
(* Exporter.getTextShowOperations drives them.                             *)
(*                                                                         *)
(* Strings are sequences of bytes (Go strings indexed by byte).            *)
(* float64 values are exact numbers h*Huge + i + n/d (see Num below).      *)
(***************************************************************************)
EXTENDS Integers, Sequences, FiniteSets, TLC

(***************************************************************************)
(* Bytes.                                                                  *)
(***************************************************************************)
capitalT == 84
singleQuote == 39
doubleQuote == 34
openParen == 40
closeParen == 41
backSlash == 92
MinNonSpecialAscii == 32
MaxNonSpecialAscii == 126

\* The bytes the inputs of this model are written with.
Code(c) ==
  CASE c = " "  -> 32  [] c = "\n" -> 10  [] c = "\"" -> doubleQuote
    [] c = "'"  -> singleQuote  [] c = "(" -> openParen  [] c = ")" -> closeParen
    [] c = "*"  -> 42  [] c = "-"  -> 45  [] c = "."  -> 46  [] c = "/" -> 47
    [] c = "0"  -> 48  [] c = "1"  -> 49  [] c = "2"  -> 50  [] c = "3" -> 51
    [] c = "4"  -> 52  [] c = "5"  -> 53  [] c = "6"  -> 54  [] c = "7" -> 55
    [] c = "8"  -> 56  [] c = "9"  -> 57
    [] c = "A"  -> 65  [] c = "B"  -> 66  [] c = "C"  -> 67  [] c = "D" -> 68
    [] c = "E"  -> 69  [] c = "F"  -> 70  [] c = "H"  -> 72  [] c = "J" -> 74
    [] c = "K"  -> 75  [] c = "L"  -> 76  [] c = "M"  -> 77  [] c = "R" -> 82
    [] c = "T"  -> capitalT  [] c = "X" -> 88  [] c = "["  -> 91
    [] c = "\\" -> backSlash [] c = "]" -> 93
    [] c = "a"  -> 97  [] c = "b"  -> 98  [] c = "c"  -> 99  [] c = "d" -> 100
    [] c = "f"  -> 102 [] c = "i"  -> 105 [] c = "j"  -> 106 [] c = "m" -> 109
    [] c = "r"  -> 114 [] c = "s"  -> 115 [] c = "w"  -> 119 [] c = "z" -> 122

\* A Go string literal, written one character per element.
S(chars) == [k \in 1..Len(chars) |-> Code(chars[k])]

RECURSIVE Concat(_)
Concat(ss) == IF ss = <<>> THEN <<>> ELSE Head(ss) \o Concat(Tail(ss))

\* s[from:] and s[:to] of Go, on 1-based sequences
From(s, k) == SubSeq(s, k, Len(s))
Upto(s, k) == SubSeq(s, 1, k)

\* v bound to a name: F applied to v
With(v, F(_)) == F(v)

\* regexp classes of Go (RE2): \s, \d, [\d.], [\d.\-]
IsSpace(b) == b \in {9, 10, 12, 13, 32}
IsDigit(b) == b >= 48 /\ b <= 57
IsDigitDot(b) == IsDigit(b) \/ b = 46
IsDigitDotDash(b) == IsDigitDot(b) \/ b = 45

\* the end (exclusive, 1-based) of the longest run of bytes of a class from k
RECURSIVE RunEnd(_, _, _)
RunEnd(s, k, cls) ==
  IF k > Len(s) THEN k
  ELSE IF    (cls = "s"   /\ IsSpace(s[k]))
          \/ (cls = "S"   /\ ~IsSpace(s[k]))
          \/ (cls = "d"   /\ IsDigit(s[k]))
          \/ (cls = "d."  /\ IsDigitDot(s[k]))
          \/ (cls = "d.-" /\ IsDigitDotDash(s[k]))
       THEN RunEnd(s, k + 1, cls)
       ELSE k

\* strings.Contains(s, sub)
Contains(s, sub) ==
  \E k \in 1..(Len(s) - Len(sub) + 1) : SubSeq(s, k, k + Len(sub) - 1) = sub

(***************************************************************************)
(* float64.  A value is h*Huge + i + n/d with 0 <= n < d in lowest terms:  *)
(* exact arithmetic on the values small enough that float64 keeps the      *)
(* search increment 1e-7 apart (h = 0), and multiples of Huge = 1e20,      *)
(* where float64 absorbs every addend up to maxRowInsertVariance:          *)
(* 1e20 + f = 1e20 for 0 <= f <= 50 (the spacing of float64 at 1e20 is     *)
(* 16384).  A value with h # 0 has i = n = 0.                              *)
(***************************************************************************)
RECURSIVE GCD(_, _)
GCD(x, y) == IF y = 0 THEN x ELSE GCD(y, x % y)

Norm(i, n, d) ==
  With(GCD(d, n % d), LAMBDA g :
    [h |-> 0, i |-> i + (n \div d), n |-> (n % d) \div g, d |-> d \div g])

IntNum(k) == [h |-> 0, i |-> k, n |-> 0, d |-> 1]
HugeNum(k) == [h |-> k, i |-> 0, n |-> 0, d |-> 1]
Zero == IntNum(0)
One == IntNum(1)

Absorbs(x) == x.h # 0

Add(x, y) ==
  IF x.h + y.h # 0 THEN HugeNum(x.h + y.h)
  ELSE IF x.h # 0 THEN Zero
  ELSE With((x.d \div GCD(x.d, y.d)) * y.d, LAMBDA l :
         Norm(x.i + y.i, x.n * (l \div x.d) + y.n * (l \div y.d), l))

Neg(x) == IF x.h # 0 THEN HugeNum(-x.h) ELSE Norm(-x.i, -x.n, x.d)

Sub(x, y) == Add(x, Neg(y))

\* the product; a multiple of Huge only times an integer
Mul(x, y) ==
  CASE x.h = 0 /\ y.h = 0 ->
         Add(Add(IntNum(x.i * y.i), Norm(0, x.i * y.n, y.d)),
             Add(Norm(0, y.i * x.n, x.d), Norm(0, x.n * y.n, x.d * y.d)))
    [] x.h # 0 /\ y.h = 0 /\ y.n = 0 ->
         IF y.i = 0 THEN Zero ELSE HugeNum(x.h * y.i)
    [] x.h = 0 /\ y.h # 0 /\ x.n = 0 ->
         IF x.i = 0 THEN Zero ELSE HugeNum(y.h * x.i)

\* x / k for a positive integer k (the code divides by 10, 100 and 1000)
DivInt(x, k) ==
  CASE x.h = 0 -> Add(Norm(0, x.i, k), Norm(0, x.n, x.d * k))

Less(x, y) ==
  IF x.h # y.h THEN x.h < y.h
  ELSE With((x.d \div GCD(x.d, y.d)) * y.d, LAMBDA l :
         x.i < y.i \/ (x.i = y.i /\ x.n * (l \div x.d) < y.n * (l \div y.d)))

Leq(x, y) == x = y \/ Less(x, y)

\* int(x) of Go: truncation toward zero
Trunc(x) ==
  CASE x.h = 0 -> IF x.i < 0 /\ x.n # 0 THEN x.i + 1 ELSE x.i

\* floor(x), for comparison with the row key
Floor(x) ==
  CASE x.h = 0 -> x.i


(***************************************************************************)
(* strconv.ParseFloat on the strings the regular expressions let through   *)
(* (bytes of [0-9.-]): an optional sign, digits with at most one point and *)
(* at least one digit.  A syntax error returns 0 and the error.            *)
(***************************************************************************)
RECURSIVE DecVal(_)
DecVal(ds) ==
  IF ds = <<>> THEN 0 ELSE DecVal(Upto(ds, Len(ds) - 1)) * 10 + (ds[Len(ds)] - 48)

RECURSIVE Pow10(_)
Pow10(k) == IF k = 0 THEN 1 ELSE 10 * Pow10(k - 1)

AllZeros(ds) == \A k \in 1..Len(ds) : ds[k] = 48

\* Integer literals of up to MaxExactDigits digits are read exactly; a digit
\* followed by 20 zeros is read as that multiple of Huge.
MaxExactDigits == 9

\* the value of the digits ints.frac
Magnitude(ints, frac) ==
  CASE Len(ints) <= MaxExactDigits ->
         Add(IntNum(DecVal(ints)), Norm(0, DecVal(frac), Pow10(Len(frac))))
    [] Len(ints) = 21 /\ AllZeros(Tail(ints)) /\ AllZeros(frac) ->
         HugeNum(ints[1] - 48)

\* body is s without its sign: the digits up to pint, then a point and the
\* digits up to pfr
ParseUnsigned(body) ==
  With(RunEnd(body, 1, "d"), LAMBDA pint :
  With(IF pint <= Len(body) /\ body[pint] = 46
       THEN RunEnd(body, pint + 1, "d") ELSE pint, LAMBDA pfr :
    IF pfr # Len(body) + 1 \/ pfr - 1 - (IF pfr > pint THEN 1 ELSE 0) = 0
    THEN [ok |-> FALSE, v |-> Zero]
    ELSE [ok |-> TRUE,
          v |-> Magnitude(SubSeq(body, 1, pint - 1), SubSeq(body, pint + 1, pfr - 1))]))

ParseFloat(s) ==
  IF Len(s) > 0 /\ s[1] = 45
  THEN With(ParseUnsigned(Tail(s)), LAMBDA p : [ok |-> p.ok, v |-> Neg(p.v)])
  ELSE ParseUnsigned(s)

\* the end (exclusive) of a match of -?\d+(\.\d+)? that starts at k; 0 if none
NumberEnd(s, k) ==
  With(IF k <= Len(s) /\ s[k] = 45 THEN k + 1 ELSE k, LAMBDA p2 :
  With(RunEnd(s, p2, "d"), LAMBDA p3 :
    IF p3 = p2 THEN 0
    ELSE IF p3 <= Len(s) /\ s[p3] = 46 /\ RunEnd(s, p3 + 1, "d") > p3 + 1
    THEN RunEnd(s, p3 + 1, "d")
    ELSE p3))

\* ^\s*(?P<x>-?\d+(\.\d+)?)\s+(?P<y>-?\d+(\.\d+)?)\s*$
ParseXYValues(input) ==
  With(RunEnd(input, 1, "s"), LAMBDA p1 :
  With(NumberEnd(input, p1), LAMBDA p2 :
  With(RunEnd(input, p2, "s"), LAMBDA p3 :
  With(NumberEnd(input, p3), LAMBDA p4 :
    IF p2 = 0 \/ p3 = p2 \/ p4 = 0 \/ RunEnd(input, p4, "s") # Len(input) + 1
    THEN [err |-> "could not parse into X Y values", x |-> Zero, y |-> Zero]
    ELSE With(ParseFloat(SubSeq(input, p3, p4 - 1)), LAMBDA fy :
           [err |-> IF fy.ok THEN "nil" ELSE "ParseFloat",
            x |-> ParseFloat(SubSeq(input, p1, p2 - 1)).v, y |-> fy.v])))))

\* ^\s*(?P<value>-?\d+(\.\d+)?)\s*$
ParseSingleValue(input) ==
  With(RunEnd(input, 1, "s"), LAMBDA p1 :
  With(NumberEnd(input, p1), LAMBDA p2 :
    IF p2 = 0 \/ RunEnd(input, p2, "s") # Len(input) + 1
    THEN [err |-> "could not parse into float value", value |-> Zero]
    ELSE With(ParseFloat(SubSeq(input, p1, p2 - 1)), LAMBDA fv :
           [err |-> IF fv.ok THEN "nil" ELSE "ParseFloat", value |-> fv.v])))

\* FindAllStringSubmatch of (?P<param>-?[\d.]+): the matches, left to right
RECURSIVE FindParams(_, _)
FindParams(s, k) ==
  IF k > Len(s) THEN <<>>
  ELSE IF s[k] = 45 /\ k + 1 <= Len(s) /\ IsDigitDot(s[k + 1])
       THEN With(RunEnd(s, k + 1, "d."), LAMBDA e :
              <<SubSeq(s, k, e - 1)>> \o FindParams(s, e))
  ELSE IF IsDigitDot(s[k])
       THEN With(RunEnd(s, k, "d."), LAMBDA e :
              <<SubSeq(s, k, e - 1)>> \o FindParams(s, e))
  ELSE FindParams(s, k + 1)

\* the loop of GetFloatParams: stops at the first match ParseFloat refuses
RECURSIVE ParseParams(_)
ParseParams(ms) ==
  IF ms = <<>> THEN [err |-> "nil", params |-> <<>>]
  ELSE With(ParseFloat(Head(ms)), LAMBDA f :
         IF ~f.ok THEN [err |-> "ParseFloat", params |-> <<>>]
         ELSE With(ParseParams(Tail(ms)), LAMBDA rest :
                [err |-> rest.err,
                 params |-> IF rest.err = "nil" THEN <<f.v>> \o rest.params ELSE <<>>]))

GetFloatParams(paramString) ==
  With(FindParams(paramString, 1), LAMBDA matches :
    IF matches = <<>> THEN [err |-> "failed to parse float params", params |-> <<>>]
    ELSE ParseParams(matches))


(***************************************************************************)
(* ParseTextFields: the runs of a show operand.                            *)
(***************************************************************************)
\* adjustRegex.FindString(opString[:i]) for [\d.\-]+$ : the trailing run
RECURSIVE TrailingRun(_)
TrailingRun(s) ==
  IF s = <<>> \/ ~IsDigitDotDash(s[Len(s)]) THEN <<>>
  ELSE TrailingRun(Upto(s, Len(s) - 1)) \o <<s[Len(s)]>>

\* A variant of the loop's iteration that keeps the adjustment as it is where
\* no number stands before the parenthesis or the number does not parse; C19
\* is tested against it.
ParseTextFieldsStepKeepingAdjust(opString, i, st) ==
  LET lastByte == st.b
      b == opString[i]
      st1 == [st EXCEPT !.lastByte = st.b, !.b = opString[i]]
  IN  IF b = openParen /\ lastByte # backSlash
      THEN With(ParseFloat(TrailingRun(Upto(opString, i - 1))), LAMBDA f :
             [st1 EXCEPT !.adjust = IF ~f.ok THEN @ ELSE f.v,
                         !.insideParen = TRUE,
                         !.outBuff = <<>>])
      ELSE IF b = closeParen /\ lastByte # backSlash
      THEN IF Len(st.outBuff) > 0
           THEN [st1 EXCEPT !.insideParen = FALSE,
                            !.textCharacters =
                               Append(@, [Text |-> st.outBuff, HorizAdjust |-> st.adjust]),
                            !.adjust = Zero]
           ELSE [st1 EXCEPT !.insideParen = FALSE]
      ELSE IF b = backSlash /\ lastByte # backSlash
      THEN st1
      ELSE IF st.insideParen
      THEN [st1 EXCEPT !.outBuff = Append(@, b)]
      ELSE st1

\* one iteration of the loop, for byte i (1-based) of opString
ParseTextFieldsStep(opString, i, st) ==
  LET lastByte == st.b
      b == opString[i]
      st1 == [st EXCEPT !.lastByte = st.b, !.b = opString[i]]
  IN  IF b = openParen /\ lastByte # backSlash
      THEN With(ParseFloat(TrailingRun(Upto(opString, i - 1))), LAMBDA f :
             [st1 EXCEPT !.adjust = IF ~f.ok THEN One ELSE f.v,
                         !.insideParen = TRUE,
                         !.outBuff = <<>>])
      ELSE IF b = closeParen /\ lastByte # backSlash
      THEN IF Len(st.outBuff) > 0
           THEN [st1 EXCEPT !.insideParen = FALSE,
                            !.textCharacters =
                               Append(@, [Text |-> st.outBuff, HorizAdjust |-> st.adjust]),
                            !.adjust = Zero]
           ELSE [st1 EXCEPT !.insideParen = FALSE]
      ELSE IF b = backSlash /\ lastByte # backSlash
      THEN st1
      ELSE IF st.insideParen
      THEN [st1 EXCEPT !.outBuff = Append(@, b)]
      ELSE st1

RECURSIVE ParseTextFieldsLoop(_, _, _)
ParseTextFieldsLoop(opString, i, st) ==
  IF i > Len(opString) THEN st
  ELSE ParseTextFieldsLoop(opString, i + 1, ParseTextFieldsStep(opString, i, st))

ParseTextFields(opString) ==
  ParseTextFieldsLoop(opString, 1,
    [lastByte |-> 0, b |-> 0, adjust |-> Zero, insideParen |-> FALSE,
     outBuff |-> <<>>, textCharacters |-> <<>>]).textCharacters

(***************************************************************************)
(* Fonts: the page's font table, as the reader hands it to NewPageRender.  *)
(* The page keeps the reference in its field Fonts.                        *)
(* One font /F1 with the characters 10..105; the widths are those of the   *)
(* glyph space (H 722, i 278, space 278, the others 500).                  *)
(***************************************************************************)
F1 == S(<<"/", "F", "1">>)

F1Widths ==
  [k \in 1..96 |-> IF k - 1 + 10 = 72 THEN 722
                   ELSE IF k - 1 + 10 \in {32, 105} THEN 278 ELSE 500]

Fonts == [name \in {F1} |-> [Name |-> name, FirstChar |-> 10, LastChar |-> 105,
                             Widths |-> F1Widths]]

\* A variant of CalculateGlyphWidth that adds the spacing after the scaling;
\* C15 is tested against it.
CalculateGlyphWidthSpacingUnscaled(f, char, tjAdjustment, fontSize, charSpacing, wordSpacing, horizontalScaling) ==
  IF char < f.FirstChar \/ char > f.LastChar
  THEN [err |-> "char is outside range", width |-> Zero]
  ELSE [err |-> "nil",
        width |-> Add(Mul(Mul(Sub(IntNum(f.Widths[char - f.FirstChar + 1]),
                                  DivInt(tjAdjustment, 1000)), fontSize),
                          horizontalScaling),
                      IF char = 32 THEN wordSpacing ELSE charSpacing)]

\* FontDefinition.CalculateGlyphWidth
CalculateGlyphWidth(f, char, tjAdjustment, fontSize, charSpacing, wordSpacing, horizontalScaling) ==
  IF char < f.FirstChar \/ char > f.LastChar
  THEN [err |-> "char is outside range", width |-> Zero]
  ELSE [err |-> "nil",
        width |-> Mul(Add(Mul(Sub(IntNum(f.Widths[char - f.FirstChar + 1]),
                                  DivInt(tjAdjustment, 1000)), fontSize),
                          IF char = 32 THEN wordSpacing ELSE charSpacing),
                      horizontalScaling)]

(***************************************************************************)
(* ShowOperation.                                                          *)
(***************************************************************************)
\* the bytes of every run, in order, each with its run's adjustment
RECURSIVE Glyphs(_)
Glyphs(chars) ==
  IF chars = <<>> THEN <<>>
  ELSE [k \in 1..Len(Head(chars).Text) |->
          [char |-> Head(chars).Text[k], adjust |-> Head(chars).HorizAdjust]]
       \o Glyphs(Tail(chars))

\* ShowOperation.GetWidth: the sum of the glyph widths, or the first error
RECURSIVE SumWidths(_, _, _)
SumWidths(s, gs, width) ==
  IF gs = <<>> THEN [err |-> "nil", width |-> width]
  ELSE With(CalculateGlyphWidth(s.Font, Head(gs).char, Head(gs).adjust,
                                s.FontSize, s.CharSpacing, s.WordSpacing, s.Scale),
            LAMBDA g :
              IF g.err # "nil" THEN [err |-> g.err, width |-> width]
              ELSE SumWidths(s, Tail(gs), Add(width, g.width)))

GetWidth(s) == SumWidths(s, Glyphs(s.chars), Zero)

\* ShowOperation.GetText
GetText(s, includeSpecial) ==
  SelectSeq([k \in 1..Len(Glyphs(s.chars)) |-> Glyphs(s.chars)[k].char],
            LAMBDA char :
              (char >= MinNonSpecialAscii /\ char <= MaxNonSpecialAscii)
              \/ includeSpecial)

(***************************************************************************)
(* LinearMatrix.                                                           *)
(***************************************************************************)
NewDefaultMatrix ==
  [ScaleX |-> One, ShearX |-> Zero, ShearY |-> Zero, ScaleY |-> One,
   OffsetX |-> Zero, OffsetY |-> Zero]

\* a new matrix with the same values
Copy(l) ==
  [ScaleX |-> l.ScaleX, ShearX |-> l.ShearX, ShearY |-> l.ShearY,
   ScaleY |-> l.ScaleY, OffsetX |-> l.OffsetX, OffsetY |-> l.OffsetY]

Translate(l, offsetX, offsetY) ==
  [l EXCEPT
     !.OffsetX = Add(Add(Mul(l.ScaleX, offsetX), Mul(l.ShearY, offsetY)), l.OffsetX),
     !.OffsetY = Add(Add(Mul(l.ShearX, offsetX), Mul(l.ScaleY, offsetY)), l.OffsetY)]

MatrixSet(l, a, b, c, d, e, f) ==
  [l EXCEPT !.ScaleX = a, !.ShearX = b, !.ShearY = c, !.ScaleY = d,
            !.OffsetX = e, !.OffsetY = f]

\* A variant of Move that takes (x, y) through the scales and shears of the
\* matrix, as Translate does; C17 is tested against it.
MoveTransformed(l, x, y) ==
  [l EXCEPT
     !.OffsetX = Add(Add(Mul(l.ScaleX, x), Mul(l.ShearY, y)), l.OffsetX),
     !.OffsetY = Add(Add(Mul(l.ShearX, x), Mul(l.ScaleY, y)), l.OffsetY)]

\* LinearMatrix.Move
Move(l, x, y) ==
  [l EXCEPT !.OffsetX = Add(l.OffsetX, x), !.OffsetY = Add(l.OffsetY, y)]


(***************************************************************************)
(* PageRender: the operators.  Each returns the page and its error.        *)
(* LineMatrix and TextMatrix are pointers in the code: the page holds the  *)
(* two matrices they point to and, in TextIsLine, whether the two pointers *)
(* are the same (NewDefaultMatrix and Copy return a new matrix each).  A   *)
(* write through TextMatrix is then a write to LineMatrix too.             *)
(***************************************************************************)
\* A variant of NewPageRender that starts the page at the scale of 100%;
\* C23 is tested against it.
NewPageRenderFullScale(pageNumber, fonts) ==
  [PageNumber |-> pageNumber,
   Fonts |-> fonts,
   LineMatrix |-> NewDefaultMatrix,
   TextMatrix |-> NewDefaultMatrix,
   TransformationMatrix |-> NewDefaultMatrix,
   LineItems |-> <<>>,
   Leading |-> Zero, CharSpacing |-> Zero, WordSpacing |-> Zero, Scale |-> One,
   FontSize |-> Zero, RenderMode |-> 0, Rise |-> Zero, Knockout |-> Zero,
   FontName |-> <<>>,
   TextIsLine |-> FALSE]

NewPageRender(pageNumber, fonts) ==
  [PageNumber |-> pageNumber,
   Fonts |-> fonts,
   LineMatrix |-> NewDefaultMatrix,
   TextMatrix |-> NewDefaultMatrix,
   TransformationMatrix |-> NewDefaultMatrix,
   LineItems |-> <<>>,
   Leading |-> Zero, CharSpacing |-> Zero, WordSpacing |-> Zero, Scale |-> Zero,
   FontSize |-> Zero, RenderMode |-> 0, Rise |-> Zero, Knockout |-> Zero,
   FontName |-> <<>>,
   TextIsLine |-> FALSE]

\* the ShowOperation addLineItem builds from the page
NewShowOperation(r, chars) ==
  [chars |-> chars, PageNumber |-> r.PageNumber,
   StartX |-> r.TextMatrix.OffsetX, StartY |-> r.TextMatrix.OffsetY,
   FontSize |-> r.FontSize, Font |-> r.Fonts[r.FontName], Leading |-> r.Leading,
   CharSpacing |-> r.CharSpacing, WordSpacing |-> r.WordSpacing, Scale |-> r.Scale,
   RenderMode |-> r.RenderMode, Rise |-> r.Rise, Knockout |-> r.Knockout]

\* A variant of addLineItem that advances the text matrix by the widths summed
\* before a glyph error; C9 is tested against it.
addLineItemAdvancing(r, chars) ==
  IF r.FontName \notin DOMAIN r.Fonts
  THEN [r |-> r, err |-> "font not found in available page fonts"]
  ELSE With(NewShowOperation(r, chars), LAMBDA line :
       With(GetWidth(line), LAMBDA w :
         IF w.err # "nil"
         THEN [r |-> [r EXCEPT !.TextMatrix = Translate(@, w.width, Zero)],
               err |-> w.err]
         ELSE [r |-> [r EXCEPT !.TextMatrix = Translate(@, w.width, Zero),
                               !.LineItems = Append(@, line)],
               err |-> "nil"]))

\* A variant of addLineItem that trims the range of the font, in the font
\* table, to start at the first character shown; C14 is tested against it.
addLineItemTrimming(r, chars) ==
  IF r.FontName \notin DOMAIN r.Fonts
  THEN [r |-> r, err |-> "font not found in available page fonts"]
  ELSE With(NewShowOperation(r, chars), LAMBDA line :
       With(GetWidth(line), LAMBDA w :
         IF w.err # "nil" THEN [r |-> r, err |-> w.err]
         ELSE [r |-> [r EXCEPT !.TextMatrix = Translate(@, w.width, Zero),
                               !.LineMatrix = IF r.TextIsLine
                                              THEN Translate(r.TextMatrix, w.width, Zero)
                                              ELSE @,
                               !.LineItems = Append(@, line),
                               !.Fonts[r.FontName].FirstChar =
                                  IF Glyphs(chars) = <<>> THEN @
                                  ELSE Glyphs(chars)[1].char],
               err |-> "nil"]))

addLineItem(r, chars) ==
  IF r.FontName \notin DOMAIN r.Fonts
  THEN [r |-> r, err |-> "font not found in available page fonts"]
  ELSE With(NewShowOperation(r, chars), LAMBDA line :
       With(GetWidth(line), LAMBDA w :
         IF w.err # "nil" THEN [r |-> r, err |-> w.err]
         ELSE [r |-> [r EXCEPT !.TextMatrix = Translate(@, w.width, Zero),
                               !.LineMatrix = IF r.TextIsLine
                                              THEN Translate(r.TextMatrix, w.width, Zero)
                                              ELSE @,
                               !.LineItems = Append(@, line)],
               err |-> "nil"]))

\* A variant of moveToStartOfNextLine that assigns the line matrix itself to
\* TextMatrix (r.TextMatrix = r.LineMatrix, without Copy); C11 is tested
\* against it.
moveToStartOfNextLineSharing(r, opString, setLeading) ==
  IF opString = <<>>
  THEN With([r.LineMatrix EXCEPT !.OffsetY = Sub(@, r.Leading)], LAMBDA lm :
         [r |-> [r EXCEPT !.LineMatrix = lm, !.TextMatrix = lm, !.TextIsLine = TRUE],
          err |-> "nil"])
  ELSE With(ParseXYValues(opString), LAMBDA xy :
         IF xy.err # "nil" THEN [r |-> r, err |-> xy.err]
         ELSE With(Move(r.LineMatrix, xy.x, xy.y), LAMBDA lm :
                [r |-> [r EXCEPT !.Leading = IF setLeading THEN xy.y ELSE @,
                                 !.LineMatrix = lm,
                                 !.TextMatrix = lm,
                                 !.TextIsLine = TRUE],
                 err |-> "nil"]))

\* a T* that adds the leading to the line matrix's offset Y
moveToStartOfNextLineAddingLeading(r, opString, setLeading) ==
  IF opString = <<>>
  THEN With([r.LineMatrix EXCEPT !.OffsetY = Add(@, r.Leading)], LAMBDA lm :
         [r |-> [r EXCEPT !.LineMatrix = lm, !.TextMatrix = Copy(lm),
                          !.TextIsLine = FALSE],
          err |-> "nil"])
  ELSE With(ParseXYValues(opString), LAMBDA xy :
         IF xy.err # "nil" THEN [r |-> r, err |-> xy.err]
         ELSE With(Move(r.LineMatrix, xy.x, xy.y), LAMBDA lm :
                [r |-> [r EXCEPT !.Leading = IF setLeading THEN xy.y ELSE @,
                                 !.LineMatrix = lm,
                                 !.TextMatrix = Copy(lm),
                                 !.TextIsLine = FALSE],
                 err |-> "nil"]))

\* Td, TD and, with the empty operand, T*
moveToStartOfNextLine(r, opString, setLeading) ==
  IF opString = <<>>
  THEN With([r.LineMatrix EXCEPT !.OffsetY = Sub(@, r.Leading)], LAMBDA lm :
         [r |-> [r EXCEPT !.LineMatrix = lm, !.TextMatrix = Copy(lm),
                          !.TextIsLine = FALSE],
          err |-> "nil"])
  ELSE With(ParseXYValues(opString), LAMBDA xy :
         IF xy.err # "nil" THEN [r |-> r, err |-> xy.err]
         ELSE With(Move(r.LineMatrix, xy.x, xy.y), LAMBDA lm :
                [r |-> [r EXCEPT !.Leading = IF setLeading THEN xy.y ELSE @,
                                 !.LineMatrix = lm,
                                 !.TextMatrix = Copy(lm),
                                 !.TextIsLine = FALSE],
                 err |-> "nil"]))

setTextLeading(r, opString) ==
  With(ParseSingleValue(opString), LAMBDA p :
    IF p.err # "nil" THEN [r |-> r, err |-> p.err]
    ELSE [r |-> [r EXCEPT !.Leading = p.value], err |-> "nil"])

setWordSpacing(r, opString) ==
  With(ParseSingleValue(opString), LAMBDA p :
    IF p.err # "nil" THEN [r |-> r, err |-> p.err]
    ELSE [r |-> [r EXCEPT !.WordSpacing = p.value], err |-> "nil"])

setCharSpacing(r, opString) ==
  With(ParseSingleValue(opString), LAMBDA p :
    IF p.err # "nil" THEN [r |-> r, err |-> p.err]
    ELSE [r |-> [r EXCEPT !.CharSpacing = p.value], err |-> "nil"])

setScale(r, opString) ==
  With(ParseSingleValue(opString), LAMBDA p :
    IF p.err # "nil" THEN [r |-> r, err |-> p.err]
    ELSE [r |-> [r EXCEPT !.Scale = DivInt(p.value, 100)], err |-> "nil"])

addText(r, opString) == addLineItem(r, ParseTextFields(opString))

\* the match of ^\s*(?P<word>[\d.\-]+)\s+(?P<char>[\d.\-]+)\s*(?P<text>.+)$ :
\* the longest char run that leaves a text, then the longest white space that
\* does; the text runs to the end of the string and holds no line feed
QuoteParser(opString) ==
  LET n == Len(opString)
      NoLineFeed(k) == \A j \in k..Len(opString) : opString[j] # 10
      none == [ok |-> FALSE, word |-> <<>>, char |-> <<>>, text |-> <<>>]
  IN
  With(RunEnd(opString, 1, "s"), LAMBDA p1 :
  With(RunEnd(opString, p1, "d.-"), LAMBDA p2 :
  With(RunEnd(opString, p2, "s"), LAMBDA p3 :
  With(RunEnd(opString, p3, "d.-"), LAMBDA p4 :
  With(RunEnd(opString, p4, "s"), LAMBDA p5 :
    LET Found(q, k) == [ok |-> TRUE, word |-> SubSeq(opString, p1, p2 - 1),
                        char |-> SubSeq(opString, p3, q - 1),
                        text |-> From(opString, k)]
    IN  IF p2 = p1 \/ p3 = p2 \/ p4 = p3 THEN none
        ELSE IF p5 <= n THEN (IF NoLineFeed(p5) THEN Found(p4, p5) ELSE none)
        ELSE IF p5 > p4 THEN (IF NoLineFeed(n) THEN Found(p4, n) ELSE none)
        ELSE IF p4 - 1 > p3 THEN Found(p4 - 1, p4 - 1)
        ELSE none)))))

\* the " operator
moveToStartOfNextLineAndAddText(r, opString) ==
  With(QuoteParser(opString), LAMBDA match :
    IF ~match.ok THEN [r |-> r, err |-> "failed to parse operand string"]
    ELSE With([r.LineMatrix EXCEPT !.OffsetY = Sub(@, r.Leading)], LAMBDA lm :
         With(setWordSpacing([r EXCEPT !.LineMatrix = lm, !.TextMatrix = Copy(lm),
                                       !.TextIsLine = FALSE],
                             match.word), LAMBDA w :
           IF w.err # "nil" THEN w
           ELSE With(setCharSpacing(w.r, match.char), LAMBDA c :
                  IF c.err # "nil" THEN c
                  ELSE addText(c.r, match.text)))))

\* the Tm operator
setMatrix(r, opString) ==
  With(GetFloatParams(opString), LAMBDA g :
  With(g.params, LAMBDA params :
    IF g.err # "nil" THEN [r |-> r, err |-> g.err]
    ELSE IF Len(params) # 6 THEN [r |-> r, err |-> "expecting 6 params"]
    ELSE [r |-> [r EXCEPT
                   !.TextMatrix = MatrixSet(@, params[1], params[2], params[3],
                                            params[4], params[5], params[6]),
                   !.LineMatrix = MatrixSet(@, params[1], params[2], params[3],
                                            params[4], params[5], params[6])],
          err |-> "nil"]))

\* A variant of setTextFont that also gives the new font and size to the show
\* operations already placed; C12 is tested against it.
setTextFontRestyling(r, opString) ==
  With(RunEnd(opString, 1, "s"), LAMBDA p1 :
  With(RunEnd(opString, p1, "S"), LAMBDA p2 :
  With(RunEnd(opString, p2, "s"), LAMBDA p3 :
  With(RunEnd(opString, p3, "d."), LAMBDA p4 :
    IF p2 = p1 \/ p3 = p2 \/ p4 = p3 \/ RunEnd(opString, p4, "s") # Len(opString) + 1
    THEN [r |-> r, err |-> "failed to parse font name and size"]
    ELSE With(ParseFloat(SubSeq(opString, p3, p4 - 1)), LAMBDA f :
           [r |-> [r EXCEPT !.FontName = SubSeq(opString, p1, p2 - 1),
                            !.FontSize = f.v,
                            !.LineItems =
                               [k \in DOMAIN r.LineItems |->
                                  [r.LineItems[k] EXCEPT
                                     !.Font = [@ EXCEPT !.Name = SubSeq(opString, p1, p2 - 1)],
                                     !.FontSize = f.v]]],
            err |-> IF f.ok THEN "nil" ELSE "ParseFloat"])))))

\* the Tf operator: ^\s*(?P<name>\S+)\s+(?P<size>[\d.]+)\s*$
setTextFont(r, opString) ==
  With(RunEnd(opString, 1, "s"), LAMBDA p1 :
  With(RunEnd(opString, p1, "S"), LAMBDA p2 :
  With(RunEnd(opString, p2, "s"), LAMBDA p3 :
  With(RunEnd(opString, p3, "d."), LAMBDA p4 :
    IF p2 = p1 \/ p3 = p2 \/ p4 = p3 \/ RunEnd(opString, p4, "s") # Len(opString) + 1
    THEN [r |-> r, err |-> "failed to parse font name and size"]
    ELSE With(ParseFloat(SubSeq(opString, p3, p4 - 1)), LAMBDA f :
           [r |-> [r EXCEPT !.FontName = SubSeq(opString, p1, p2 - 1),
                            !.FontSize = f.v],
            err |-> IF f.ok THEN "nil" ELSE "ParseFloat"])))))


(***************************************************************************)
(* AddTextBlock.                                                           *)
(***************************************************************************)
BT == S(<<"B", "T">>)
ET == S(<<"E", "T">>)

\* the switch on the operator
Dispatch(r, operator, operandString) ==
  CASE operator = S(<<"T", "d">>) -> moveToStartOfNextLine(r, operandString, FALSE)
    [] operator = S(<<"T", "D">>) -> moveToStartOfNextLine(r, operandString, TRUE)
    [] operator = S(<<"T", "m">>) -> setMatrix(r, operandString)
    [] operator \in {S(<<"T", "j">>), S(<<"T", "J">>)} -> addText(r, operandString)
    [] operator = S(<<"T", "*">>) -> moveToStartOfNextLine(r, <<>>, FALSE)
    [] operator = S(<<"T", "L">>) -> setTextLeading(r, operandString)
    [] operator = S(<<"T", "c">>) -> setCharSpacing(r, operandString)
    [] operator = S(<<"T", "w">>) -> setWordSpacing(r, operandString)
    [] operator = S(<<"T", "z">>) -> setScale(r, operandString)
    [] operator = S(<<"T", "f">>) -> setTextFont(r, operandString)
    [] operator = <<singleQuote>> ->
         addText(moveToStartOfNextLine(r, <<>>, FALSE).r, operandString)
    [] operator = <<doubleQuote>> -> moveToStartOfNextLineAndAddText(r, operandString)
    [] operator \in {S(<<"T", "r">>), S(<<"T", "s">>)} -> [r |-> r, err |-> "nil"]
    [] OTHER -> [r |-> r, err |-> "unrecognized text operator"]

\* One iteration of the scan, for byte i of contents.  st holds the page, the
\* loop's b and insideParen, the start of opBuilder in contents, the error and
\* the operators that reached the switch (the debug log before it).
ScanStep(contents, i, st) ==
  LET lastByte == st.b
      b == contents[i]
      st1 == [st EXCEPT !.b = contents[i]]
  IN  IF st.insideParen
      THEN [st1 EXCEPT !.insideParen = ~(b = closeParen /\ lastByte # backSlash)]
      ELSE IF b = openParen /\ lastByte # backSlash
      THEN [st1 EXCEPT !.insideParen = TRUE]
      ELSE IF lastByte = capitalT \/ b = singleQuote \/ b = doubleQuote
      THEN With(SubSeq(contents, st.opStart, i), LAMBDA opBuilder :
           With(IF lastByte = capitalT THEN Len(opBuilder) - 2
                ELSE Len(opBuilder) - 1, LAMBDA split :
           With(From(opBuilder, split + 1), LAMBDA operator :
           With(Upto(opBuilder, split), LAMBDA operandString :
           With(Dispatch(st.r, operator, operandString), LAMBDA d :
             [st1 EXCEPT !.r = d.r, !.blockErr = d.err, !.opStart = i + 1,
                         !.ops = Append(@, [operator |-> operator,
                                            operandString |-> operandString])])))))
      ELSE st1

\* A variant of ScanLoop that returns at once only for an unrecognized
\* operator and goes on with the contents after a handler has failed; C16 is
\* tested against it.
RECURSIVE ScanLoopContinuing(_, _, _)
ScanLoopContinuing(contents, i, st) ==
  IF i > Len(contents) \/ st.blockErr = "unrecognized text operator" THEN st
  ELSE ScanLoopContinuing(contents, i + 1, ScanStep(contents, i, st))

RECURSIVE ScanLoop(_, _, _)
ScanLoop(contents, i, st) ==
  IF i > Len(contents) \/ st.blockErr # "nil" THEN st
  ELSE ScanLoop(contents, i + 1, ScanStep(contents, i, st))

\* A variant of AddTextBlock that starts every block from the default text
\* and line matrices (as BT does in a PDF viewer); C6 is tested against it.
AddTextBlockResetting(r, textBlock) ==
  LET n == Len(textBlock)
      valid == n >= 4 /\ Upto(textBlock, 2) = BT /\ From(textBlock, n - 1) = ET
      contents == SubSeq(textBlock, 3, n - 2)
  IN  IF ~valid THEN [r |-> r, blockErr |-> "not a valid text block", ops |-> <<>>]
      ELSE IF Contains(contents, BT) \/ Contains(contents, ET)
      THEN [r |-> r, ops |-> <<>>,
            blockErr |-> "text block cannot contain another start or end text block"]
      ELSE With(ScanLoop(contents, 1,
                         [r |-> [r EXCEPT !.TextMatrix = NewDefaultMatrix,
                                          !.LineMatrix = NewDefaultMatrix],
                          b |-> 0, insideParen |-> FALSE, opStart |-> 1,
                          blockErr |-> "nil", ops |-> <<>>]), LAMBDA st :
             [r |-> st.r, blockErr |-> st.blockErr, ops |-> st.ops])

\* A variant of AddTextBlock that starts every block with leading and
\* spacings 0; C13 is tested against it.
AddTextBlockResettingParameters(r, textBlock) ==
  LET n == Len(textBlock)
      valid == n >= 4 /\ Upto(textBlock, 2) = BT /\ From(textBlock, n - 1) = ET
      contents == SubSeq(textBlock, 3, n - 2)
  IN  IF ~valid THEN [r |-> r, blockErr |-> "not a valid text block", ops |-> <<>>]
      ELSE IF Contains(contents, BT) \/ Contains(contents, ET)
      THEN [r |-> r, ops |-> <<>>,
            blockErr |-> "text block cannot contain another start or end text block"]
      ELSE With(ScanLoop(contents, 1,
                         [r |-> [r EXCEPT !.Leading = Zero, !.CharSpacing = Zero,
                                          !.WordSpacing = Zero],
                          b |-> 0, insideParen |-> FALSE, opStart |-> 1,
                          blockErr |-> "nil", ops |-> <<>>]), LAMBDA st :
             [r |-> st.r, blockErr |-> st.blockErr, ops |-> st.ops])

\* A variant of AddTextBlock without the test for a marker inside the
\* contents; C8 is tested against it.
AddTextBlockUnchecked(r, textBlock) ==
  LET n == Len(textBlock)
      valid == n >= 4 /\ Upto(textBlock, 2) = BT /\ From(textBlock, n - 1) = ET
      contents == SubSeq(textBlock, 3, n - 2)
  IN  IF ~valid THEN [r |-> r, blockErr |-> "not a valid text block", ops |-> <<>>]
      ELSE With(ScanLoop(contents, 1,
                         [r |-> r, b |-> 0, insideParen |-> FALSE, opStart |-> 1,
                          blockErr |-> "nil", ops |-> <<>>]), LAMBDA st :
             [r |-> st.r, blockErr |-> st.blockErr, ops |-> st.ops])

\* the bytes of s from i on that stand outside parentheses
RECURSIVE OutsideParens(_, _, _)
OutsideParens(s, i, inside) ==
  IF i > Len(s) THEN <<>>
  ELSE IF inside THEN OutsideParens(s, i + 1, s[i] # closeParen)
  ELSE IF s[i] = openParen THEN <<openParen>> \o OutsideParens(s, i + 1, TRUE)
  ELSE <<s[i]>> \o OutsideParens(s, i + 1, FALSE)

\* A variant of AddTextBlock that looks for a marker only outside the
\* literals of the contents; C22 is tested against it.
AddTextBlockLiteralAware(r, textBlock) ==
  LET n == Len(textBlock)
      valid == n >= 4 /\ Upto(textBlock, 2) = BT /\ From(textBlock, n - 1) = ET
      contents == SubSeq(textBlock, 3, n - 2)
  IN  IF ~valid THEN [r |-> r, blockErr |-> "not a valid text block", ops |-> <<>>]
      ELSE IF Contains(OutsideParens(contents, 1, FALSE), BT)
              \/ Contains(OutsideParens(contents, 1, FALSE), ET)
      THEN [r |-> r, ops |-> <<>>,
            blockErr |-> "text block cannot contain another start or end text block"]
      ELSE With(ScanLoop(contents, 1,
                         [r |-> r, b |-> 0, insideParen |-> FALSE, opStart |-> 1,
                          blockErr |-> "nil", ops |-> <<>>]), LAMBDA st :
             [r |-> st.r, blockErr |-> st.blockErr, ops |-> st.ops])

\* the page, the error and the operators dispatched
AddTextBlock(r, textBlock) ==
  LET n == Len(textBlock)
      valid == n >= 4 /\ Upto(textBlock, 2) = BT /\ From(textBlock, n - 1) = ET
      contents == SubSeq(textBlock, 3, n - 2)
  IN  IF ~valid THEN [r |-> r, blockErr |-> "not a valid text block", ops |-> <<>>]
      ELSE IF Contains(contents, BT) \/ Contains(contents, ET)
      THEN [r |-> r, ops |-> <<>>,
            blockErr |-> "text block cannot contain another start or end text block"]
      ELSE With(ScanLoop(contents, 1,
                         [r |-> r, b |-> 0, insideParen |-> FALSE, opStart |-> 1,
                          blockErr |-> "nil", ops |-> <<>>]), LAMBDA st :
             [r |-> st.r, blockErr |-> st.blockErr, ops |-> st.ops])

(***************************************************************************)
(* GetIndexedShowOps.  The index holds, per row and key, the position of   *)
(* the show operation in LineItems (the pointer the Go map holds).         *)
(***************************************************************************)
rowInsertionPrecision == Norm(0, 1, 10000000)
maxRowInsertVariance == IntNum(50)
minRowInsertBoundary == IntNum(1)
LetterPageWidth == Norm(595, 28, 100)
maxRowInsertBoundary == LetterPageWidth

\* targetMap[index] = object
MapStore(targetMap, index, object) ==
  [k \in DOMAIN targetMap \cup {index} |-> IF k = index THEN object ELSE targetMap[k]]

\* the search loop from f on.  Where index absorbs f, every iteration tests
\* what the first tested, so the loop ends with the error.
RECURSIVE InsertSearch(_, _, _, _)
InsertSearch(object, index, targetMap, f) ==
  IF ~Leq(f, maxRowInsertVariance)
  THEN [index |-> Zero, err |-> "failed to find available space", targetMap |-> targetMap]
  ELSE IF Add(index, f) \notin DOMAIN targetMap /\ Leq(Add(index, f), maxRowInsertBoundary)
  THEN [index |-> Add(index, f), err |-> "nil",
        targetMap |-> MapStore(targetMap, index, object)]
  ELSE IF Sub(index, f) \notin DOMAIN targetMap /\ Leq(minRowInsertBoundary, Sub(index, f))
  THEN [index |-> Sub(index, f), err |-> "nil",
        targetMap |-> MapStore(targetMap, index, object)]
  ELSE IF Absorbs(index)
  THEN [index |-> Zero, err |-> "failed to find available space", targetMap |-> targetMap]
  ELSE InsertSearch(object, index, targetMap, Add(f, rowInsertionPrecision))

InsertShowOpIntoRow(object, desiredIndex, targetMap) ==
  InsertSearch(object, desiredIndex, targetMap, Zero)

\* the row key of a show operation
RowNumber(showOp) == Trunc(DivInt(showOp.StartY, 10))

\* the first loop: the index and the error after the show operations from k on
RECURSIVE IndexLoop(_, _, _)
IndexLoop(LineItems, k, st) ==
  IF k > Len(LineItems) THEN st
  ELSE With(LineItems[k], LAMBDA showOp :
       With(RowNumber(showOp), LAMBDA rowNumber :
       With(showOp.StartX, LAMBDA mapKeyX :
         IF rowNumber \in DOMAIN st.showOps
         THEN With(InsertShowOpIntoRow(k, mapKeyX, st.showOps[rowNumber]), LAMBDA ins :
                IndexLoop(LineItems, k + 1,
                  [showOps |-> [st.showOps EXCEPT ![rowNumber] = ins.targetMap],
                   pageErr |-> ins.err]))
         ELSE IndexLoop(LineItems, k + 1,
                [showOps |-> [y \in DOMAIN st.showOps \cup {rowNumber} |->
                                IF y = rowNumber THEN MapStore(<<>>, mapKeyX, k)
                                ELSE st.showOps[y]],
                 pageErr |-> st.pageErr]))))

\* A variant of SortReverse that sorts ascending; C3 is tested against it.
RECURSIVE SortAscending(_)
SortAscending(keys) ==
  IF keys = {} THEN <<>>
  ELSE With(CHOOSE y \in keys : \A z \in keys : y <= z, LAMBDA low :
         <<low>> \o SortAscending(keys \ {low}))

\* sort.Sort(sort.Reverse(sort.IntSlice(indicesY)))
RECURSIVE SortReverse(_)
SortReverse(keys) ==
  IF keys = {} THEN <<>>
  ELSE With(CHOOSE y \in keys : \A z \in keys : z <= y, LAMBDA top :
         <<top>> \o SortReverse(keys \ {top}))

\* sort.Float64s(indicesX)
RECURSIVE SortFloat64s(_)
SortFloat64s(keys) ==
  IF keys = {} THEN <<>>
  ELSE With(CHOOSE x \in keys : \A z \in keys : Leq(x, z), LAMBDA low :
         <<low>> \o SortFloat64s(keys \ {low}))

\* the text of one row: its operations by key, then the line feed
RowText(LineItems, row) ==
  With(SortFloat64s(DOMAIN row), LAMBDA indicesX :
    Concat([k \in 1..Len(indicesX) |-> GetText(LineItems[row[indicesX[k]]], FALSE)])
    \o <<10>>)

GetIndexedShowOps(r) ==
  With(IndexLoop(r.LineItems, 1, [showOps |-> <<>>, pageErr |-> "nil"]), LAMBDA st :
  With(SortReverse(DOMAIN st.showOps), LAMBDA indicesY :
    [showOps |-> st.showOps,
     text |-> Concat([k \in 1..Len(indicesY) |->
                        RowText(r.LineItems, st.showOps[indicesY[k]])]),
     pageErr |-> st.pageErr]))


(***************************************************************************)
(* The text blocks the reader hands to the exporter, as Go string          *)
(* literals.                                                               *)
(***************************************************************************)
\* "BT 10 20 Td /F1 12 Tf (Hi) Tj ET"
BlockHi ==
  S(<<"B", "T", " ", "1", "0", " ", "2", "0", " ", "T", "d", " ", "/", "F", "1", " ",
      "1", "2", " ", "T", "f", " ", "(", "H", "i", ")", " ", "T", "j", " ", "E", "T">>)

\* "BT ET"
BlockEmpty ==
  S(<<"B", "T", " ", "E", "T">>)

\* "BT (A) Tj ET"
BlockShowA ==
  S(<<"B", "T", " ", "(", "A", ")", " ", "T", "j", " ", "E", "T">>)

\* "BT (A)' ET"
BlockShowQuoteA ==
  S(<<"B", "T", " ", "(", "A", ")", "'", " ", "E", "T">>)

\* "BT (Hz) Tj ET"
BlockShowHz ==
  S(<<"B", "T", " ", "(", "H", "z", ")", " ", "T", "j", " ", "E", "T">>)

\* "BT /F1 12 Tf 1 0 0 1 5 100 Tm (A) Tj ET"
BlockTm5x100 ==
  S(<<"B", "T", " ", "/", "F", "1", " ", "1", "2", " ", "T", "f", " ", "1", " ", "0",
      " ", "0", " ", "1", " ", "5", " ", "1", "0", "0", " ", "T", "m", " ", "(", "A",
      ")", " ", "T", "j", " ", "E", "T">>)

\* "BT /F1 12 Tf 1 0 0 1 50 104 Tm (B) Tj ET"
BlockTm50x104 ==
  S(<<"B", "T", " ", "/", "F", "1", " ", "1", "2", " ", "T", "f", " ", "1", " ", "0",
      " ", "0", " ", "1", " ", "5", "0", " ", "1", "0", "4", " ", "T", "m", " ", "(",
      "B", ")", " ", "T", "j", " ", "E", "T">>)

\* "BT /F1 12 Tf 1 0 0 1 5 -5 Tm (C) Tj ET"
BlockTm5xNeg5 ==
  S(<<"B", "T", " ", "/", "F", "1", " ", "1", "2", " ", "T", "f", " ", "1", " ", "0",
      " ", "0", " ", "1", " ", "5", " ", "-", "5", " ", "T", "m", " ", "(", "C", ")",
      " ", "T", "j", " ", "E", "T">>)

\* "BT /F1 12 Tf 1 0 0 1 50 5 Tm (D) Tj ET"
BlockTm50x5 ==
  S(<<"B", "T", " ", "/", "F", "1", " ", "1", "2", " ", "T", "f", " ", "1", " ", "0",
      " ", "0", " ", "1", " ", "5", "0", " ", "5", " ", "T", "m", " ", "(", "D", ")",
      " ", "T", "j", " ", "E", "T">>)

\* "BT /F1 12 Tf 100000000000000000000 0 Td (A) Tj (B) Tj ET"
BlockHuge ==
  S(<<"B", "T", " ", "/", "F", "1", " ", "1", "2", " ", "T", "f", " ", "1", "0", "0",
      "0", "0", "0", "0", "0", "0", "0", "0", "0", "0", "0", "0", "0", "0", "0", "0",
      "0", "0", " ", "0", " ", "T", "d", " ", "(", "A", ")", " ", "T", "j", " ", "(",
      "B", ")", " ", "T", "j", " ", "E", "T">>)

\* "BT 14 TL ET"
BlockTL ==
  S(<<"B", "T", " ", "1", "4", " ", "T", "L", " ", "E", "T">>)

\* "BT 100 Tz ET"
BlockTz ==
  S(<<"B", "T", " ", "1", "0", "0", " ", "T", "z", " ", "E", "T">>)

\* "BT /F9 12 Tf ET"
BlockFontMissing ==
  S(<<"B", "T", " ", "/", "F", "9", " ", "1", "2", " ", "T", "f", " ", "E", "T">>)

\* "BT (A) Tj"
BlockNoET ==
  S(<<"B", "T", " ", "(", "A", ")", " ", "T", "j">>)

\* "(A) Tj ET"
BlockNoBT ==
  S(<<"(", "A", ")", " ", "T", "j", " ", "E", "T">>)

\* "BT BT (A) Tj ET ET"
BlockNested ==
  S(<<"B", "T", " ", "B", "T", " ", "(", "A", ")", " ", "T", "j", " ", "E", "T", " ",
      "E", "T">>)


\* "BT /F1 12 Tf 14 TL 100 Tz 10 20 Td ET"
BlockSetup ==
  S(<<"B", "T", " ", "/", "F", "1", " ", "1", "2", " ", "T", "f", " ", "1", "4", " ",
      "T", "L", " ", "1", "0", "0", " ", "T", "z", " ", "1", "0", " ", "2", "0", " ",
      "T", "d", " ", "E", "T">>)

\* "BT [(A)5(B)] TJ ET"
BlockShowTJ ==
  S(<<"B", "T", " ", "[", "(", "A", ")", "5", "(", "B", ")", "]", " ", "T", "J", " ",
      "E", "T">>)

\* "BT 1 TX 14 TL ET"
BlockUnknownOp ==
  S(<<"B", "T", " ", "1", " ", "T", "X", " ", "1", "4", " ", "T", "L", " ", "E",
      "T">>)

\* "BT a TL /F1 12 Tf ET"
BlockBadOperand ==
  S(<<"B", "T", " ", "a", " ", "T", "L", " ", "/", "F", "1", " ", "1", "2", " ",
      "T", "f", " ", "E", "T">>)

\* "BT (z) Tj 14 TL ET"
BlockShowFails ==
  S(<<"B", "T", " ", "(", "z", ")", " ", "T", "j", " ", "1", "4", " ", "T", "L",
      " ", "E", "T">>)

\* "BT 2 1 0 2 5 100 Tm 10 20 Td ET"
BlockScaledTd ==
  S(<<"B", "T", " ", "2", " ", "1", " ", "0", " ", "2", " ", "5", " ", "1", "0",
      "0", " ", "T", "m", " ", "1", "0", " ", "2", "0", " ", "T", "d", " ", "E",
      "T">>)

\* "BT 2 1 0 2 5 100 Tm 10 -14 TD ET"
BlockScaledTD ==
  S(<<"B", "T", " ", "2", " ", "1", " ", "0", " ", "2", " ", "5", " ", "1", "0",
      "0", " ", "T", "m", " ", "1", "0", " ", "-", "1", "4", " ", "T", "D", " ",
      "E", "T">>)

\* "BT /F1 12 Tf (T'"Td) Tj ET"
BlockLiteralOps ==
  S(<<"B", "T", " ", "/", "F", "1", " ", "1", "2", " ", "T", "f", " ", "(", "T",
      "'", "\"", "T", "d", ")", " ", "T", "j", " ", "E", "T">>)

\* "BT /F1 12 Tf (a\)b) Tj 14 TL ET"
BlockEscapedParen ==
  S(<<"B", "T", " ", "/", "F", "1", " ", "1", "2", " ", "T", "f", " ", "(", "a",
      "\\", ")", "b", ")", " ", "T", "j", " ", "1", "4", " ", "T", "L", " ", "E",
      "T">>)

\* "BT /F1 12 Tf (a\\) Tj 14 TL ET"
BlockEscapedBackslash ==
  S(<<"B", "T", " ", "/", "F", "1", " ", "1", "2", " ", "T", "f", " ", "(", "a",
      "\\", "\\", ")", " ", "T", "j", " ", "1", "4", " ", "T", "L", " ", "E", "T">>)

\* "BT /TT1 12 Tf ET"
BlockFontTT1 ==
  S(<<"B", "T", " ", "/", "T", "T", "1", " ", "1", "2", " ", "T", "f", " ", "E",
      "T">>)

\* "BT /F2 1.2.3 Tf ET"
BlockTfBadSize ==
  S(<<"B", "T", " ", "/", "F", "2", " ", "1", ".", "2", ".", "3", " ", "T", "f",
      " ", "E", "T">>)

\* "BT 1-2 3 (X)" ET"
BlockQuoteBadWord ==
  S(<<"B", "T", " ", "1", "-", "2", " ", "3", " ", "(", "X", ")", "\"", " ", "E",
      "T">>)

\* "BT 2 1-2 (X)" ET"
BlockQuoteBadChar ==
  S(<<"B", "T", " ", "2", " ", "1", "-", "2", " ", "(", "X", ")", "\"", " ", "E",
      "T">>)

\* "BT 1 0 0 1 5 1.2.3 Tm ET"
BlockTmBad ==
  S(<<"B", "T", " ", "1", " ", "0", " ", "0", " ", "1", " ", "5", " ", "1", ".",
      "2", ".", "3", " ", "T", "m", " ", "E", "T">>)

\* "BT /F1 12 Tf (MARKET) Tj ET"
BlockMarket ==
  S(<<"B", "T", " ", "/", "F", "1", " ", "1", "2", " ", "T", "f", " ", "(", "M",
      "A", "R", "K", "E", "T", ")", " ", "T", "j", " ", "E", "T">>)

\* "BT /F1 12 Tf 10 20 Td (A) Tj (B) Tj ET"
BlockTwoShows ==
  S(<<"B", "T", " ", "/", "F", "1", " ", "1", "2", " ", "T", "f", " ", "1", "0",
      " ", "2", "0", " ", "T", "d", " ", "(", "A", ")", " ", "T", "j", " ", "(",
      "B", ")", " ", "T", "j", " ", "E", "T">>)

\* "BT 1 0 0 1 5 100 Tm 10 -14 TD T* ET"
BlockTDThenTStar ==
  S(<<"B", "T", " ", "1", " ", "0", " ", "0", " ", "1", " ", "5", " ", "1", "0",
      "0", " ", "T", "m", " ", "1", "0", " ", "-", "1", "4", " ", "T", "D", " ",
      "T", "*", " ", "E", "T">>)

\* the operands "w c text" of the " operator that the reader's blocks use
QuoteOperands ==
  { [w |-> S(<<"2">>), c |-> S(<<"3">>), text |-> S(<<"(", "X", ")">>)],
    [w |-> S(<<"0">>), c |-> S(<<"0">>), text |-> S(<<"(", "X", ")">>)],
    [w |-> S(<<"2">>), c |-> S(<<"3">>), text |-> S(<<"(", "a", "\n", "b", ")">>)] }

\* "BT w c text\" ET"
QuoteBlock(o) ==
  Concat(<<BT, S(<<" ">>), o.w, S(<<" ">>), o.c, S(<<" ">>), o.text,
           <<doubleQuote>>, S(<<" ">>), ET>>)

\* "BT T* w Tw c Tc text Tj ET"
QuoteSequenceBlock(o) ==
  Concat(<<BT, S(<<" ", "T", "*", " ">>), o.w, S(<<" ", "T", "w", " ">>), o.c,
           S(<<" ", "T", "c", " ">>), o.text, S(<<" ", "T", "j", " ">>), ET>>)

Blocks ==
  { BlockHi, BlockEmpty, BlockShowA, BlockShowQuoteA, BlockShowHz, BlockTm5x100,
    BlockTm50x104, BlockTm5xNeg5, BlockTm50x5, BlockHuge, BlockTL, BlockTz,
    BlockFontMissing, BlockNoET, BlockNoBT, BlockNested, BlockSetup, BlockShowTJ,
    BlockUnknownOp, BlockBadOperand, BlockShowFails, BlockScaledTd, BlockScaledTD,
    BlockLiteralOps, BlockEscapedParen, BlockEscapedBackslash, BlockFontTT1,
    BlockTfBadSize, BlockQuoteBadWord, BlockQuoteBadChar, BlockTmBad, BlockMarket,
    BlockTwoShows, BlockTDThenTStar }
  \cup { QuoteBlock(o) : o \in QuoteOperands }
  \cup { QuoteSequenceBlock(o) : o \in QuoteOperands }

\* the operands ParseTextFields is called with directly
MaxOperandLen == 6
OperandBytes == {openParen, closeParen, backSlash, 97, 53}

Operands == UNION { [1..n -> OperandBytes] : n \in 0..MaxOperandLen }

\* the operands of TJ: "[(s1)n2(s2)n3(s3)]" with one, two or three literals
TJLiterals == {S(<<"a">>), S(<<"5", "a">>)}

TJNumbers ==
  {<<>>, S(<<"5">>), S(<<"-", "5">>), S(<<".", "5">>), S(<<"5", ".">>),
   S(<<"0", ".", "9", "9", "7">>), S(<<"-">>), S(<<".">>), S(<<"1", "-", "2">>),
   S(<<"-", "-", "5">>)}

RECURSIVE TJRuns(_, _)
TJRuns(literals, numbers) ==
  IF literals = <<>> THEN <<>>
  ELSE Head(numbers) \o <<openParen>> \o Head(literals) \o <<closeParen>>
       \o TJRuns(Tail(literals), Tail(numbers))

\* numbers[1] is empty: nothing stands before the first literal
TJOperand(literals, numbers) == S(<<"[">>) \o TJRuns(literals, numbers) \o S(<<"]">>)

TJShapes ==
  UNION { [1..k -> TJLiterals] \X {<<<<>>>> \o ns : ns \in [1..(k - 1) -> TJNumbers]}
            : k \in {1, 2, 3} }

TJOperands == { TJOperand(shape[1], shape[2]) : shape \in TJShapes }

(***************************************************************************)
(* The state: Exporter.getTextShowOperations on one page.                  *)
(***************************************************************************)
VARIABLES
  r,               \* the PageRender
  phase,           \* "adding" blocks, "failed" on a block, "indexed"; "parse"/"parsed"
  blocks,          \* the blocks handed to AddTextBlock so far, in order
  r0,              \* the page before the last AddTextBlock
  blockErr,        \* what the last AddTextBlock returned
  ops,             \* the operators the last AddTextBlock dispatched
  showOps,         \* what getTextShowOperations returns: the index,
  text,            \*   the text
  pageErr,         \*   and the error
  opString,        \* the operand of a direct ParseTextFields call
  textCharacters,  \*   and what it returned
  fonts,           \* the font table two pages share
  pages,           \* the two pages, each with its worker's position
  schedule,        \* the workers in the order their steps ran
  glyph,           \* the font and the arguments of a direct CalculateGlyphWidth call
  glyphWidth       \*   and what it returned

vars == <<r, phase, blocks, r0, blockErr, ops, showOps, text, pageErr,
          opString, textCharacters, fonts, pages, schedule, glyph, glyphWidth>>

MaxBlocks == 2

Init ==
  /\ r = NewPageRender(1, Fonts)
  /\ phase = "adding"
  /\ blocks = <<>>
  /\ r0 = NewPageRender(1, Fonts)
  /\ blockErr = "nil"
  /\ ops = <<>>
  /\ showOps = <<>>
  /\ text = <<>>
  /\ pageErr = "nil"
  /\ opString = <<>>
  /\ textCharacters = <<>>
  /\ fonts = Fonts
  /\ pages = <<>>
  /\ schedule = <<>>
  /\ glyph = <<>>
  /\ glyphWidth = <<>>

\* one turn of the loop over the blocks: page.AddTextBlock(block), and the
\* return of (nil, "", err) when it fails
AddBlock(block) ==
  /\ phase = "adding"
  /\ Len(blocks) < MaxBlocks
  /\ \E res \in {AddTextBlock(r, block)} :
       /\ r' = res.r
       /\ blockErr' = res.blockErr
       /\ ops' = res.ops
       /\ phase' = IF res.blockErr = "nil" THEN "adding" ELSE "failed"
       /\ pageErr' = res.blockErr
  /\ r0' = r
  /\ blocks' = Append(blocks, block)
  /\ UNCHANGED <<showOps, text, opString, textCharacters, fonts, pages, schedule, glyph,
                 glyphWidth>>

\* return page.GetIndexedShowOps()
IndexPage ==
  /\ phase = "adding"
  /\ \E res \in {GetIndexedShowOps(r)} :
       /\ showOps' = res.showOps
       /\ text' = res.text
       /\ pageErr' = res.pageErr
  /\ phase' = "indexed"
  /\ UNCHANGED <<r, blocks, r0, blockErr, ops, opString, textCharacters, fonts, pages,
               schedule, glyph,
                 glyphWidth>>

Next ==
  \/ \E block \in Blocks : AddBlock(block)
  \/ IndexPage

Spec == Init /\ [][Next]_vars

\* the block of the last AddTextBlock
lastBlock == blocks[Len(blocks)]
added == Len(blocks) > 0

(***************************************************************************)
(* ParseTextFields called on its own, on every operand of Operands.        *)
(***************************************************************************)
InitParse ==
  /\ r = NewPageRender(1, Fonts)
  /\ phase = "parse"
  /\ blocks = <<>>
  /\ r0 = NewPageRender(1, Fonts)
  /\ blockErr = "nil"
  /\ ops = <<>>
  /\ showOps = <<>>
  /\ text = <<>>
  /\ pageErr = "nil"
  /\ opString \in Operands \cup TJOperands
  /\ textCharacters = <<>>
  /\ fonts = Fonts
  /\ pages = <<>>
  /\ schedule = <<>>
  /\ glyph = <<>>
  /\ glyphWidth = <<>>

ParseCall ==
  /\ phase = "parse"
  /\ textCharacters' = ParseTextFields(opString)
  /\ phase' = "parsed"
  /\ UNCHANGED <<r, blocks, r0, blockErr, ops, showOps, text, pageErr, opString, fonts,
               pages, schedule, glyph,
                 glyphWidth>>

NextParse == ParseCall

SpecParse == InitParse /\ [][NextParse]_vars

(***************************************************************************)
(* Two pages with one font table, each page processed by its own worker:   *)
(* the loop of getTextShowOperations over the page's blocks, then          *)
(* GetIndexedShowOps.  The steps of the two workers interleave.  A page    *)
(* reaches the table through its field Fonts, a reference: a step reads    *)
(* the table as it is when the step runs, and what the step leaves in the  *)
(* field is the table afterwards.                                          *)
(***************************************************************************)
Workers == {1, 2}

PageBlocks == {BlockHi, BlockShowHz}

InitPages ==
  /\ r = NewPageRender(1, Fonts)
  /\ phase = "pages"
  /\ blocks = <<>>
  /\ r0 = NewPageRender(1, Fonts)
  /\ blockErr = "nil"
  /\ ops = <<>>
  /\ showOps = <<>>
  /\ text = <<>>
  /\ pageErr = "nil"
  /\ opString = <<>>
  /\ textCharacters = <<>>
  /\ fonts = Fonts
  /\ pages = [p \in Workers |->
                [r |-> NewPageRender(p, Fonts), phase |-> "adding", blocks |-> <<>>,
                 showOps |-> <<>>, text |-> <<>>, pageErr |-> "nil"]]
  /\ schedule = <<>>
  /\ glyph = <<>>
  /\ glyphWidth = <<>>

\* worker p: page.AddTextBlock(block)
PageAddBlock(p, block) ==
  /\ phase = "pages"
  /\ pages[p].phase = "adding"
  /\ Len(pages[p].blocks) < MaxBlocks
  /\ \E res \in {AddTextBlock([pages[p].r EXCEPT !.Fonts = fonts], block)} :
       /\ pages' = [pages EXCEPT ![p] =
                      [@ EXCEPT !.r = res.r,
                                !.phase = IF res.blockErr = "nil" THEN "adding"
                                          ELSE "failed",
                                !.blocks = Append(@, block),
                                !.pageErr = res.blockErr]]
       /\ fonts' = res.r.Fonts
  /\ schedule' = Append(schedule, p)
  /\ UNCHANGED <<r, phase, blocks, r0, blockErr, ops, showOps, text, pageErr,
                 opString, textCharacters, glyph,
                 glyphWidth>>

\* worker p: return page.GetIndexedShowOps()
PageIndex(p) ==
  /\ phase = "pages"
  /\ pages[p].phase = "adding"
  /\ \E res \in {GetIndexedShowOps([pages[p].r EXCEPT !.Fonts = fonts])} :
       pages' = [pages EXCEPT ![p] =
                   [@ EXCEPT !.phase = "indexed",
                             !.showOps = res.showOps,
                             !.text = res.text,
                             !.pageErr = res.pageErr]]
  /\ schedule' = Append(schedule, p)
  /\ UNCHANGED <<r, phase, blocks, r0, blockErr, ops, showOps, text, pageErr,
                 opString, textCharacters, fonts, glyph,
                 glyphWidth>>

NextPages ==
  \/ \E p \in Workers, block \in PageBlocks : PageAddBlock(p, block)
  \/ \E p \in Workers : PageIndex(p)

SpecPages == InitPages /\ [][NextPages]_vars

(***************************************************************************)
(* CalculateGlyphWidth called on its own: on two fonts, on characters      *)
(* inside and outside their ranges, on integer adjustments, sizes and      *)
(* spacings, and on scales given in percent as Tz gives them.              *)
(***************************************************************************)
F2 == S(<<"/", "F", "2">>)

GlyphFonts ==
  {Fonts[F1], [Name |-> F2, FirstChar |-> 32, LastChar |-> 34, Widths |-> <<250, 333, 408>>]}

GlyphChars == {9, 10, 31, 32, 33, 34, 35, 72, 105, 106}

GlyphInputs ==
  [font : GlyphFonts, char : GlyphChars,
   tjAdjustment : {IntNum(k) : k \in {-50, 0, 1, 120}},
   fontSize : {IntNum(k) : k \in {0, 12}},
   charSpacing : {IntNum(k) : k \in {0, 2}},
   wordSpacing : {IntNum(k) : k \in {0, 3}},
   horizontalScaling : {DivInt(IntNum(k), 100) : k \in {0, 50, 100}}]

InitGlyph ==
  /\ r = NewPageRender(1, Fonts)
  /\ phase = "glyph"
  /\ blocks = <<>>
  /\ r0 = NewPageRender(1, Fonts)
  /\ blockErr = "nil"
  /\ ops = <<>>
  /\ showOps = <<>>
  /\ text = <<>>
  /\ pageErr = "nil"
  /\ opString = <<>>
  /\ textCharacters = <<>>
  /\ fonts = Fonts
  /\ pages = <<>>
  /\ schedule = <<>>
  /\ glyph \in GlyphInputs
  /\ glyphWidth = <<>>

GlyphCall ==
  /\ phase = "glyph"
  /\ glyphWidth' = CalculateGlyphWidth(glyph.font, glyph.char, glyph.tjAdjustment,
                                       glyph.fontSize, glyph.charSpacing,
                                       glyph.wordSpacing, glyph.horizontalScaling)
  /\ phase' = "measured"
  /\ UNCHANGED <<r, blocks, r0, blockErr, ops, showOps, text, pageErr, opString,
                 textCharacters, fonts, pages, schedule, glyph>>

NextGlyph == GlyphCall

SpecGlyph == InitGlyph /\ [][NextGlyph]_vars


(***************************************************************************)
(* The properties.  items is the page's list of show operations; at        *)
(* phase "indexed" showOps, text and pageErr are what GetIndexedShowOps    *)
(* returned for it.                                                        *)
(***************************************************************************)
items == r.LineItems
Row(i) == RowNumber(items[i])
X(i) == items[i].StartX

\* i and j are the only two show operations at their row and start X
OnlyPairAt(i, j) ==
  /\ i < j
  /\ Row(i) = Row(j)
  /\ X(i) = X(j)
  /\ \A k \in DOMAIN items : (Row(k) = Row(i) /\ X(k) = X(i)) => k \in {i, j}

\* C1: when two show operations have the same row key and the same start X,
\* the index returned by GetIndexedShowOps holds both in that row: the first
\* under its start X, the second under a key one rowInsertionPrecision away
\* from it.  (Start X small enough that float64 tells the two keys apart.)
C1_CollisionKeepsBoth ==
  phase = "indexed" =>
    \A i, j \in DOMAIN items :
      (OnlyPairAt(i, j) /\ ~Absorbs(X(i))) =>
        /\ Row(i) \in DOMAIN showOps
        /\ X(i) \in DOMAIN showOps[Row(i)]
        /\ showOps[Row(i)][X(i)] = i
        /\ \E key \in DOMAIN showOps[Row(i)] :
             /\ showOps[Row(i)][key] = j
             /\ key \in {Add(X(i), rowInsertionPrecision),
                         Sub(X(i), rowInsertionPrecision)}

\* C2: the row key under which GetIndexedShowOps files a show operation is
\* floor(StartY / 10), negative StartY included, and two show operations
\* share a row exactly when these floors are equal.
C2_RowKeyIsFloor ==
  phase = "indexed" =>
    /\ \A y \in DOMAIN showOps : \A x \in DOMAIN showOps[y] :
         y = Floor(DivInt(items[showOps[y][x]].StartY, 10))
    /\ \A i, j \in DOMAIN items :
         (Row(i) = Row(j))
           <=> (Floor(DivInt(items[i].StartY, 10)) = Floor(DivInt(items[j].StartY, 10)))

\* the show operations have pairwise distinct (row key, start X)
DistinctPositions ==
  \A i, j \in DOMAIN items : i # j => <<Row(i), X(i)>> # <<Row(j), X(j)>>

\* i comes before j on the page: a higher row, or the same row and a lower X
Precedes(i, j) == Row(i) > Row(j) \/ (Row(i) = Row(j) /\ Less(X(i), X(j)))

\* the show operation with k - 1 show operations before it on the page
ItemAt(k) ==
  CHOOSE i \in DOMAIN items :
    Cardinality({j \in DOMAIN items : Precedes(j, i)}) = k - 1

\* i is the last show operation of its row
EndsRow(i) == \A j \in DOMAIN items : Row(j) = Row(i) => ~Precedes(i, j)

\* the texts in page order, a line feed after each row
ExpectedText ==
  Concat([k \in 1..Len(items) |->
            GetText(items[ItemAt(k)], FALSE)
            \o (IF EndsRow(ItemAt(k)) THEN <<10>> ELSE <<>>)])

\* C3: for show operations with pairwise distinct (row key, start X), in any
\* stream order, the text of GetIndexedShowOps lists the rows by descending
\* row key and the operations of a row by ascending start X, with no error.
C3_TextInPageOrder ==
  (phase = "indexed" /\ DistinctPositions) =>
    /\ text = ExpectedText
    /\ pageErr = "nil"
    /\ \A i \in DOMAIN items : showOps[Row(i)][X(i)] = i
    /\ (blocks \in {<<BlockTm5x100, BlockTm50x104>>, <<BlockTm50x104, BlockTm5x100>>}) =>
         text = S(<<"A", "B", "\n">>)

\* C3 reached: (Y=104, X=50) came first in the stream, (Y=100, X=5) second;
\* both are in row 10 and the text is that of the second, then of the first.
C3_Witness ==
  /\ phase = "indexed"
  /\ blocks = <<BlockTm50x104, BlockTm5x100>>
  /\ DistinctPositions
  /\ Row(1) = 10 /\ Row(2) = 10
  /\ text = S(<<"A", "B", "\n">>)

\* the insertion of show operation k into the index built from the show
\* operations before it finds no free key
InsertFails(k) ==
  LET st == IndexLoop(SubSeq(items, 1, k - 1), 1, [showOps |-> <<>>, pageErr |-> "nil"])
  IN  /\ Row(k) \in DOMAIN st.showOps
      /\ InsertShowOpIntoRow(k, X(k), st.showOps[Row(k)]).err # "nil"

\* C4: when the search of InsertShowOpIntoRow finds no free key for some show
\* operation of the page, GetIndexedShowOps returns an error, whatever show
\* operations follow.
C4_InsertErrorReturned ==
  (phase = "indexed" /\ \E k \in DOMAIN items : InsertFails(k)) => pageErr # "nil"

\* the width of "Hi" at font size 12: the glyph widths of H and i by
\* CalculateGlyphWidth at 100% horizontal scaling, without and with the
\* adjustment ParseTextFields gives a run that no number precedes
WidthsOfHi ==
  { Add(CalculateGlyphWidth(Fonts[F1], 72, adj, IntNum(12), Zero, Zero, One).width,
        CalculateGlyphWidth(Fonts[F1], 105, adj, IntNum(12), Zero, Zero, One).width)
      : adj \in {Zero, One} }

\* C5: on a fresh page, "BT 10 20 Td /F1 12 Tf (Hi) Tj ET" succeeds and
\* records one show operation at (10, 20); the text is "Hi" (with or without
\* the row's line feed) and the text matrix ends at offset X 10 + width("Hi").
C5_HiAdvancesByWidth ==
  (phase = "indexed" /\ blocks = <<BlockHi>>) =>
    /\ blockErr = "nil"
    /\ Len(items) = 1
    /\ items[1].StartX = IntNum(10) /\ items[1].StartY = IntNum(20)
    /\ text \in {S(<<"H", "i">>), S(<<"H", "i", "\n">>)}
    /\ r.TextMatrix.OffsetX \in {Add(IntNum(10), w) : w \in WidthsOfHi}

\* C6: AddTextBlock on "BT ET" succeeds, dispatches nothing and changes no
\* field of the page; GetIndexedShowOps on a page that received only such
\* blocks returns an empty index, an empty text and no error.
C6_EmptyBlockNoEffect ==
  /\ (added /\ lastBlock = BlockEmpty) =>
       (blockErr = "nil" /\ ops = <<>> /\ r = r0)
  /\ (phase = "indexed" /\ \A k \in DOMAIN blocks : blocks[k] = BlockEmpty) =>
       (showOps = <<>> /\ text = <<>> /\ pageErr = "nil")

\* C6 reached: two empty blocks, then the index
C6_Witness ==
  /\ phase = "indexed"
  /\ blocks = <<BlockEmpty, BlockEmpty>>
  /\ r = NewPageRender(1, Fonts)
  /\ text = <<>>

\* C7: from any page, the " operator with operand "w c (text)" leaves the
\* page as T*, Tw with w, Tc with c and Tj with (text) leave it.
C7_QuoteIsSequence ==
  \A o \in QuoteOperands :
    (added /\ lastBlock = QuoteBlock(o)) =>
      r = AddTextBlock(r0, QuoteSequenceBlock(o)).r

\* a string that does not begin with BT and end with ET, or with another BT or
\* ET between them
Malformed(textBlock) ==
  \/ Len(textBlock) < 4
  \/ SubSeq(textBlock, 1, 2) # BT
  \/ SubSeq(textBlock, Len(textBlock) - 1, Len(textBlock)) # ET
  \/ Contains(SubSeq(textBlock, 3, Len(textBlock) - 2), BT)
  \/ Contains(SubSeq(textBlock, 3, Len(textBlock) - 2), ET)

\* C8: AddTextBlock on a malformed block returns an error, dispatches no
\* operator and leaves the page unchanged.
C8_MalformedBlockRejected ==
  (added /\ Malformed(lastBlock)) =>
    (blockErr # "nil" /\ ops = <<>> /\ r = r0 /\ phase = "failed")

\* C8 reached: a nested block after a block that moved the page off its
\* initial state
C8_Witness ==
  /\ phase = "failed"
  /\ blocks = <<BlockHi, BlockNested>>
  /\ Len(r.LineItems) = 1
  /\ ops = <<>>

\* the blocks of one show operator
ShowBlocks ==
  {BlockShowA, BlockShowQuoteA, BlockShowHz, BlockShowTJ}
  \cup {QuoteBlock(o) : o \in QuoteOperands}

\* C9: Tf with a font that the font table lacks succeeds and sets the font
\* name; a show operator dispatched while the current name is not in the table
\* fails; a show operator that fails appends no show operation and leaves the
\* text matrix where it was or, for ' and ", at the start of the new line.
C9_FontResolvedAtShow ==
  /\ (added /\ lastBlock = BlockFontMissing) =>
       (blockErr = "nil" /\ r.FontName = S(<<"/", "F", "9">>)
        /\ r.FontName \notin DOMAIN Fonts)
  /\ (added /\ lastBlock \in ShowBlocks /\ r0.FontName \notin DOMAIN Fonts) =>
       blockErr # "nil"
  /\ (added /\ lastBlock \in ShowBlocks /\ blockErr # "nil") =>
       /\ r.LineItems = r0.LineItems
       /\ r.TextMatrix = r0.TextMatrix \/ r.TextMatrix = r.LineMatrix

\* C9 reached: Tf with /F9, then a show
C9_Witness ==
  /\ phase = "failed"
  /\ blocks = <<BlockFontMissing, BlockShowA>>
  /\ r0.FontName = S(<<"/", "F", "9">>)
  /\ r.LineItems = <<>>

\* The scan of an operand by the escape pairs: a backslash that is not the
\* second byte of a pair starts one, the second byte of a pair is captured
\* inside a literal and is never a delimiter.  stray records a pair outside a
\* literal.
PairScanStep(b, st) ==
  IF st.escaped
  THEN [st EXCEPT !.escaped = FALSE,
                  !.outBuff = IF st.insideParen THEN Append(@, b) ELSE @]
  ELSE IF b = backSlash
  THEN [st EXCEPT !.escaped = TRUE, !.stray = @ \/ ~st.insideParen]
  ELSE IF b = openParen
  THEN [st EXCEPT !.insideParen = TRUE, !.outBuff = <<>>]
  ELSE IF b = closeParen
  THEN [st EXCEPT !.insideParen = FALSE,
                  !.texts = IF Len(st.outBuff) > 0 THEN Append(@, st.outBuff) ELSE @]
  ELSE IF st.insideParen
  THEN [st EXCEPT !.outBuff = Append(@, b)]
  ELSE st

RECURSIVE PairScan(_, _, _)
PairScan(s, i, st) ==
  IF i > Len(s) THEN st ELSE PairScan(s, i + 1, PairScanStep(s[i], st))

PairScanOf(s) ==
  PairScan(s, 1, [escaped |-> FALSE, insideParen |-> FALSE, stray |-> FALSE,
                  outBuff |-> <<>>, texts |-> <<>>])

\* C10: for every operand whose backslashes are inside literals, the texts of
\* the runs ParseTextFields returns are those of the scan by escape pairs: a
\* pair \(, \) or \\ gives its second byte, and a parenthesis after the pair
\* \\ is a delimiter.
C10_EscapePairs ==
  (phase = "parsed" /\ ~PairScanOf(opString).stray) =>
    [k \in 1..Len(textCharacters) |-> textCharacters[k].Text] = PairScanOf(opString).texts

\* The line matrix and the leading as the operators other than the shows
\* write them: Td and TD move the offsets, T*, ' and " go down by the leading,
\* Tm sets the matrix, TL and TD set the leading.
LineTrackStep(st, op) ==
  CASE op.operator \in {S(<<"T", "d">>), S(<<"T", "D">>)} ->
         [lm |-> [st.lm EXCEPT
                    !.OffsetX = Add(@, ParseXYValues(op.operandString).x),
                    !.OffsetY = Add(@, ParseXYValues(op.operandString).y)],
          leading |-> IF op.operator = S(<<"T", "D">>)
                      THEN ParseXYValues(op.operandString).y ELSE st.leading]
    [] op.operator \in {S(<<"T", "*">>), <<singleQuote>>, <<doubleQuote>>} ->
         [st EXCEPT !.lm.OffsetY = Sub(@, st.leading)]
    [] op.operator = S(<<"T", "L">>) ->
         [st EXCEPT !.leading = ParseSingleValue(op.operandString).value]
    [] op.operator = S(<<"T", "m">>) ->
         [st EXCEPT !.lm = [ScaleX |-> GetFloatParams(op.operandString).params[1],
                            ShearX |-> GetFloatParams(op.operandString).params[2],
                            ShearY |-> GetFloatParams(op.operandString).params[3],
                            ScaleY |-> GetFloatParams(op.operandString).params[4],
                            OffsetX |-> GetFloatParams(op.operandString).params[5],
                            OffsetY |-> GetFloatParams(op.operandString).params[6]]]
    [] OTHER -> st

RECURSIVE LineTrack(_, _)
LineTrack(st, os) ==
  IF os = <<>> THEN st ELSE LineTrack(LineTrackStep(st, Head(os)), Tail(os))

IsShow(op) ==
  op.operator \in {S(<<"T", "j">>), S(<<"T", "J">>), <<singleQuote>>, <<doubleQuote>>}

\* C11: the line matrix and the text matrix are never the same matrix, and
\* after a block that succeeds the line matrix is what the operators other
\* than the shows made of it: the advance of a show changes no component of
\* the line matrix, also directly after Td, TD, T*, ', " or Tm.
C11_LineMatrixIsolated ==
  /\ ~r.TextIsLine
  /\ (added /\ blockErr = "nil") =>
       r.LineMatrix = LineTrack([lm |-> r0.LineMatrix, leading |-> r0.Leading], ops).lm

\* C11 reached: with scale 1, "10 20 Td /F1 12 Tf (Hi) Tj" has moved the line
\* matrix to (20, 40) and the show has advanced the text matrix from there
C11_Witness ==
  /\ blocks = <<BlockSetup, BlockHi>>
  /\ blockErr = "nil"
  /\ \E k \in DOMAIN ops : IsShow(ops[k])
  /\ r.LineMatrix.OffsetX = IntNum(20)
  /\ r.TextMatrix.OffsetX = Add(IntNum(20), Norm(11999, 976, 1000))
  /\ r.TextMatrix.OffsetY = r.LineMatrix.OffsetY

\* the show operators among the operators dispatched, in order
ShowsOf(os) == SelectSeq(os, IsShow)

\* the show operators of the last block that succeeded: all of them, but for
\* the last operator of a block that failed
PlacedShows ==
  IF blockErr # "nil" /\ Len(ops) > 0 /\ IsShow(ops[Len(ops)])
  THEN SubSeq(ShowsOf(ops), 1, Len(ShowsOf(ops)) - 1)
  ELSE ShowsOf(ops)

TextsOf(chars) == [k \in 1..Len(chars) |-> chars[k].Text]

\* the literal of a show operand: for " what follows the two numbers
LiteralOf(op) ==
  IF op.operator = <<doubleQuote>> THEN QuoteParser(op.operandString).text
  ELSE op.operandString

\* C12: an AddTextBlock call leaves the show operations already in the list
\* as they were and appends one per show operator that succeeded, in stream
\* order, each with the runs of its operand; no other operator adds one.
\* GetIndexedShowOps has the list as the blocks left it.
C12_ShowListAppendOnly ==
  added =>
    /\ Len(r.LineItems) = Len(r0.LineItems) + Len(PlacedShows)
    /\ SubSeq(r.LineItems, 1, Len(r0.LineItems)) = r0.LineItems
    /\ \A k \in 1..Len(PlacedShows) :
         TextsOf(r.LineItems[Len(r0.LineItems) + k].chars)
           = TextsOf(ParseTextFields(LiteralOf(PlacedShows[k])))
    /\ (blockErr = "nil" /\ Len(ops) > 0 /\ IsShow(ops[Len(ops)])) =>
         LET last == r.LineItems[Len(r.LineItems)]
         IN  /\ last.Font = r.Fonts[r.FontName] /\ last.FontSize = r.FontSize
             /\ last.Leading = r.Leading /\ last.Scale = r.Scale
             /\ last.CharSpacing = r.CharSpacing /\ last.WordSpacing = r.WordSpacing

\* C12 reached: one show operation from the first block, then a block with
\* Tf, Td and two shows
C12_Witness ==
  /\ blocks = <<BlockHi, BlockHuge>>
  /\ Len(r0.LineItems) = 1
  /\ Len(r.LineItems) = 3
  /\ Len(ops) = 4
  /\ TextsOf(r.LineItems[1].chars) = <<S(<<"H", "i">>)>>

\* "BT A B ET" of "BT A ET" and "BT B ET"
JoinBlocks(first, second) == Upto(first, Len(first) - 3) \o From(second, 3)

\* the operands and operators of os as the scan took them from the block
Dispatched(os) ==
  Concat([k \in 1..Len(os) |-> os[k].operandString \o os[k].operator])

\* the scan of the block from a new page took whole operand/operator pairs:
\* what follows the last operator dispatched is white space
WholePairs(textBlock) ==
  LET contents == SubSeq(textBlock, 3, Len(textBlock) - 2)
      taken == Dispatched(AddTextBlock(NewPageRender(1, Fonts), textBlock).ops)
  IN  \A k \in Len(taken) + 1 .. Len(contents) : IsSpace(contents[k])

RECURSIVE Alone(_, _)
Alone(p, bs) ==
  IF bs = <<>> THEN NewPageRender(p, Fonts)
  ELSE AddTextBlock(Alone(p, Upto(bs, Len(bs) - 1)), bs[Len(bs)]).r

\* C14: for two pages with one font table whose AddTextBlock and
\* GetIndexedShowOps steps interleave, the state of each page, its index, its
\* text and its error are those of the page processed alone, and the font
\* table stays as it was given.
C14_PagesIndependent ==
  phase = "pages" =>
    /\ fonts = Fonts
    /\ \A p \in Workers :
         LET done == pages[p].blocks
             alone == Alone(p, done)
             index == GetIndexedShowOps(alone)
         IN  /\ pages[p].r = alone
             /\ pages[p].phase = "indexed" =>
                  /\ pages[p].showOps = index.showOps
                  /\ pages[p].text = index.text
                  /\ pages[p].pageErr = index.pageErr
             /\ pages[p].phase = "failed" =>
                  pages[p].pageErr
                    = AddTextBlock(Alone(p, Upto(done, Len(done) - 1)),
                                   done[Len(done)]).blockErr

\* C14 reached: the workers took turns; page 1 has shown "Hi" twice and is
\* indexed, page 2 has shown "Hi" and then failed on a character outside the
\* font
C14_Witness ==
  /\ schedule = <<1, 2, 1, 2, 1>>
  /\ pages[1].phase = "indexed" /\ pages[2].phase = "failed"
  /\ pages[1].blocks = <<BlockHi, BlockHi>>
  /\ pages[2].blocks = <<BlockHi, BlockShowHz>>
  /\ pages[1].text = S(<<"H", "i", "\n", "H", "i", "\n">>)
  /\ pages[2].pageErr = "char is outside range"
  /\ fonts = Fonts


\* the value of a number that is no multiple of Huge, times k, when that is
\* an integer
Times(x, k) == x.i * k + (x.n * k) \div x.d

\* C15: for a char in the range of the font, CalculateGlyphWidth returns
\* ((widths[char - firstChar] - adjustment/1000) * fontSize + s) * scale with
\* s the word spacing for the space byte 32 and the char spacing for every
\* other char; for a char outside the range it returns the range error and
\* no width.  (In integers: 100000 * width, with the scale in percent.)
C15_GlyphWidthFormula ==
  phase = "measured" =>
    IF glyph.char >= glyph.font.FirstChar /\ glyph.char <= glyph.font.LastChar
    THEN /\ glyphWidth.err = "nil"
         /\ ~Absorbs(glyphWidth.width)
         /\ (100000 * glyphWidth.width.n) % glyphWidth.width.d = 0
         /\ Times(glyphWidth.width, 100000)
              = ((1000 * glyph.font.Widths[glyph.char - glyph.font.FirstChar + 1]
                    - glyph.tjAdjustment.i) * glyph.fontSize.i
                 + 1000 * (IF glyph.char = 32 THEN glyph.wordSpacing.i
                           ELSE glyph.charSpacing.i))
                * Times(glyph.horizontalScaling, 100)
    ELSE /\ glyphWidth.err = "char is outside range"
         /\ glyphWidth.width = Zero

\* C15 reached: the space of /F2 at size 12 with word spacing 3 and char
\* spacing 2, adjustment 120, scale 50%: ((250 - 0.12) * 12 + 3) * 0.5
C15_Witness ==
  /\ phase = "measured"
  /\ glyph.font.Name = F2 /\ glyph.char = 32
  /\ glyph.tjAdjustment = IntNum(120) /\ glyph.fontSize = IntNum(12)
  /\ glyph.charSpacing = IntNum(2) /\ glyph.wordSpacing = IntNum(3)
  /\ glyph.horizontalScaling = Norm(0, 1, 2)
  /\ glyphWidth.err = "nil"
  /\ glyphWidth.width = Norm(1500, 78, 100)


\* the switch applied to the operators of os in order, from the page r, up to
\* the first that fails: the page, the error and the number applied
RECURSIVE Replay(_, _, _)
Replay(st, os, k) ==
  IF k > Len(os) \/ st.err # "nil" THEN st
  ELSE Replay([r |-> Dispatch(st.r, os[k].operator, os[k].operandString).r,
               err |-> Dispatch(st.r, os[k].operator, os[k].operandString).err,
               applied |-> k], os, k + 1)

\* what AddTextBlock dispatched is a run of consecutive operand/operator
\* pairs from the start of the block's contents, the page is what these
\* operators made of it, and only the last of them can have failed
DispatchedInOrder ==
  LET contents == SubSeq(lastBlock, 3, Len(lastBlock) - 2)
      rep == Replay([r |-> r0, err |-> "nil", applied |-> 0], ops, 1)
  IN  /\ Dispatched(ops) = Upto(contents, Len(Dispatched(ops)))
      /\ rep.applied = Len(ops)
      /\ rep.r = r
      /\ rep.err = blockErr

\* C16: the operators of a block are dispatched in stream order; when one
\* fails AddTextBlock returns its error and dispatches no later operator, the
\* exporter returns that error and no text, and takes no further step for
\* the page.
C16_FailureStopsPage ==
  /\ []((added /\ ~Malformed(lastBlock)) =>
          /\ DispatchedInOrder
          /\ blockErr # "nil" =>
               (phase = "failed" /\ pageErr = blockErr /\ text = <<>> /\ showOps = <<>>))
  /\ [][phase # "failed"]_vars

\* C16 reached: "1 TX" failed and the "14 TL" after it left the leading alone
C16_Witness ==
  /\ blocks = <<BlockHi, BlockUnknownOp>>
  /\ phase = "failed"
  /\ Len(ops) = 1 /\ ops[1].operator = S(<<"T", "X">>)
  /\ blockErr = "unrecognized text operator"
  /\ r.Leading = Zero
  /\ text = <<>>


\* the page before the last operator that AddTextBlock dispatched
BeforeLastOp ==
  Replay([r |-> r0, err |-> "nil", applied |-> 0], Upto(ops, Len(ops) - 1), 1).r

\* C17: after "x y Td" the offsets of the line matrix are the previous ones
\* plus (x, y), whatever its scales and shears, which stay; the text matrix
\* has the values of the line matrix; the leading stays.  "x y TD" gives the
\* same but for the leading, which is y.
C17_TdMovesByOffsets ==
  (added /\ blockErr = "nil" /\ Len(ops) > 0
     /\ ops[Len(ops)].operator \in {S(<<"T", "d">>), S(<<"T", "D">>)}) =>
    LET before == BeforeLastOp
        xy == ParseXYValues(ops[Len(ops)].operandString)
        moved == [before.LineMatrix EXCEPT !.OffsetX = Add(@, xy.x),
                                           !.OffsetY = Add(@, xy.y)]
    IN  /\ xy.err = "nil"
        /\ r = [before EXCEPT
                  !.LineMatrix = moved, !.TextMatrix = moved, !.TextIsLine = FALSE,
                  !.Leading = IF ops[Len(ops)].operator = S(<<"T", "D">>)
                              THEN xy.y ELSE @]
        /\ lastBlock = BlockScaledTd =>
             /\ r.LineMatrix = [ScaleX |-> IntNum(2), ShearX |-> One, ShearY |-> Zero,
                                ScaleY |-> IntNum(2), OffsetX |-> IntNum(15),
                                OffsetY |-> IntNum(120)]
             /\ r.Leading = r0.Leading
        /\ lastBlock = BlockScaledTD =>
             /\ r.LineMatrix = [ScaleX |-> IntNum(2), ShearX |-> One, ShearY |-> Zero,
                                ScaleY |-> IntNum(2), OffsetX |-> IntNum(15),
                                OffsetY |-> IntNum(86)]
             /\ r.Leading = IntNum(-14)

\* C17 reached: after "14 TL", "2 1 0 2 5 100 Tm 10 20 Td" has moved the line
\* matrix from (5, 100) to (15, 120) and left the leading at 14
C17_Witness ==
  /\ blocks = <<BlockTL, BlockScaledTd>>
  /\ blockErr = "nil"
  /\ BeforeLastOp.LineMatrix.OffsetX = IntNum(5)
  /\ BeforeLastOp.LineMatrix.ScaleX = IntNum(2)
  /\ r.LineMatrix.OffsetX = IntNum(15) /\ r.LineMatrix.OffsetY = IntNum(120)
  /\ r.TextMatrix = r.LineMatrix
  /\ r.Leading = IntNum(14)


\* The operators of a block's contents by the literals' escape pairs: inside
\* a literal a backslash and the byte after it are a pair, and the first
\* parenthesis outside a pair ends the literal; outside literals the operator
\* ends at the byte after a capital T or at a quote.
LiteralScanStep(contents, i, st) ==
  LET b == contents[i]
      st1 == [st EXCEPT !.lastByte = b]
  IN  IF st.insideParen
      THEN IF st.escaped THEN [st1 EXCEPT !.escaped = FALSE]
           ELSE IF b = backSlash THEN [st1 EXCEPT !.escaped = TRUE]
           ELSE [st1 EXCEPT !.insideParen = (b # closeParen)]
      ELSE IF b = openParen /\ st.lastByte # backSlash
      THEN [st1 EXCEPT !.insideParen = TRUE]
      ELSE IF st.lastByte = capitalT \/ b = singleQuote \/ b = doubleQuote
      THEN LET opBuilder == SubSeq(contents, st.opStart, i)
               split == IF st.lastByte # capitalT THEN Len(opBuilder) - 1
                        ELSE IF Len(opBuilder) >= 2 THEN Len(opBuilder) - 2 ELSE 0
           IN  [st1 EXCEPT !.opStart = i + 1,
                           !.ops = Append(@, [operator |-> From(opBuilder, split + 1),
                                              operandString |-> Upto(opBuilder, split)])]
      ELSE st1

RECURSIVE LiteralScan(_, _, _)
LiteralScan(contents, i, st) ==
  IF i > Len(contents) THEN st
  ELSE LiteralScan(contents, i + 1, LiteralScanStep(contents, i, st))

OperatorsOutsideLiterals(contents) ==
  LiteralScan(contents, 1, [lastByte |-> 0, escaped |-> FALSE, insideParen |-> FALSE,
                            opStart |-> 1, ops |-> <<>>]).ops

\* C18: the operators AddTextBlock dispatches for a block that passes the
\* delimiter check are those outside the literals, in order and each with
\* its operand byte for byte (all of them when the block succeeds, those up
\* to the failing one otherwise); a literal ends at the parenthesis after an
\* escaped backslash.
C18_LiteralsOpaque ==
  (added /\ ~Malformed(lastBlock)) =>
    LET expected == OperatorsOutsideLiterals(SubSeq(lastBlock, 3, Len(lastBlock) - 2))
    IN  /\ Len(ops) <= Len(expected)
        /\ ops = Upto(expected, Len(ops))
        /\ blockErr = "nil" => ops = expected


\* the value of a number of TJNumbers as a decimal number, 1 where it is
\* absent or no number
AdjustmentOf(number) ==
  CASE number = S(<<"5">>) -> IntNum(5)
    [] number = S(<<"-", "5">>) -> IntNum(-5)
    [] number = S(<<".", "5">>) -> Norm(0, 1, 2)
    [] number = S(<<"5", ".">>) -> IntNum(5)
    [] number = S(<<"0", ".", "9", "9", "7">>) -> Norm(0, 997, 1000)
    [] OTHER -> One

\* a page with font /F1 at size 12
PageWithFont == AddTextBlock(NewPageRender(1, Fonts), BlockSetup).r

\* C19: for the operand "[(s1)n2(s2)...nk(sk)]" ParseTextFields returns k
\* runs in order, run i with text si; run 1 has adjustment 1, run i > 1 the
\* value of ni, or 1 where ni is absent or no number; and the show of the
\* operand succeeds.
C19_TJRuns ==
  (phase = "parsed" /\ opString \in TJOperands) =>
    \A shape \in TJShapes :
      opString = TJOperand(shape[1], shape[2]) =>
        /\ textCharacters =
             [k \in 1..Len(shape[1]) |->
                [Text |-> shape[1][k],
                 HorizAdjust |-> IF k = 1 THEN One ELSE AdjustmentOf(shape[2][k])]]
        /\ addText(PageWithFont, opString).err = "nil"
        /\ Len(addText(PageWithFont, opString).r.LineItems) = 1

\* C19 reached: "[(a)-5(5a)-(a)]" gave the runs a, 5a and a with the
\* adjustments 1, -5 and 1
C19_Witness ==
  /\ phase = "parsed"
  /\ opString = S(<<"[", "(", "a", ")", "-", "5", "(", "5", "a", ")", "-", "(", "a",
                    ")", "]">>)
  /\ opString \in TJOperands
  /\ textCharacters = <<[Text |-> S(<<"a">>), HorizAdjust |-> One],
                        [Text |-> S(<<"5", "a">>), HorizAdjust |-> IntNum(-5)],
                        [Text |-> S(<<"a">>), HorizAdjust |-> One]>>


\* the font name of the blocks "BT name 12 Tf ET"
FontBlockName(textBlock) ==
  CASE textBlock = BlockFontMissing -> S(<<"/", "F", "9">>)
    [] textBlock = BlockFontTT1 -> S(<<"/", "T", "T", "1">>)

\* C20: AddTextBlock on "BT name size Tf ET" succeeds and sets the font name
\* to name and the font size to size, also for a name with a capital T in
\* it; no other field of the page changes.
C20_TfSetsNameAndSize ==
  (added /\ lastBlock \in {BlockFontMissing, BlockFontTT1}) =>
    /\ blockErr = "nil"
    /\ r = [r0 EXCEPT !.FontName = FontBlockName(lastBlock), !.FontSize = IntNum(12)]


\* the blocks whose last operator has an operand that does not parse
BadOperandBlocks ==
  {BlockBadOperand, BlockTmBad, BlockTfBadSize, BlockQuoteBadWord, BlockQuoteBadChar}

\* C21: an operator that fails on an operand that does not parse leaves
\* every field of the page as it was before the operator: font name and
\* size, spacings, line matrix and text matrix.
C21_FailedOperatorNoUpdate ==
  (added /\ lastBlock \in BadOperandBlocks) =>
    /\ blockErr # "nil"
    /\ r = BeforeLastOp


\* the contents of a block that begins with BT and ends with ET hold the
\* two bytes BT or the two bytes ET
MarkerInContents(textBlock) ==
  /\ Len(textBlock) >= 4
  /\ SubSeq(textBlock, 1, 2) = BT
  /\ SubSeq(textBlock, Len(textBlock) - 1, Len(textBlock)) = ET
  /\ \E k \in 3..Len(textBlock) - 3 : SubSeq(textBlock, k, k + 1) \in {BT, ET}

\* C22: AddTextBlock rejects a block whose contents hold BT or ET anywhere,
\* also inside a literal as in "BT (MARKET) Tj ET": it returns an error,
\* dispatches no operator, and the list of show operations stays as it was.
C22_MarkerInLiteralRejected ==
  (added /\ MarkerInContents(lastBlock)) =>
    /\ blockErr = "text block cannot contain another start or end text block"
    /\ ops = <<>>
    /\ r.LineItems = r0.LineItems
    /\ r = r0
    /\ phase = "failed" /\ text = <<>>

\* C22 reached: with font /F1 set and "Hi" shown, the block with the literal
\* (MARKET) is rejected and the list still holds "Hi" alone
C22_Witness ==
  /\ blocks = <<BlockHi, BlockMarket>>
  /\ MarkerInContents(BlockMarket)
  /\ ~Contains(OutsideParens(SubSeq(BlockMarket, 3, Len(BlockMarket) - 2), 1, FALSE), ET)
  /\ blockErr # "nil"
  /\ Len(r.LineItems) = 1
  /\ TextsOf(r.LineItems[1].chars) = <<S(<<"H", "i">>)>>


\* no block of the page holds the two bytes Tz, so that no Tz has been
\* dispatched
NoTzSoFar == \A k \in DOMAIN blocks : ~Contains(blocks[k], S(<<"T", "z">>))

\* the page and the error after the first k operators of the last block
AfterOp(k) == Replay([r |-> r0, err |-> "nil", applied |-> 0], Upto(ops, k), 1)

IsTjOrTJ(op) == op.operator \in {S(<<"T", "j">>), S(<<"T", "J">>)}

IsTStar(op) == op.operator = S(<<"T", "*">>)

IsTD(op) == op.operator = S(<<"T", "D">>)

=============================================================================
